---- MODULE Spec2Model ----
(***************************************************************************)
(* Verification model of the ZoozFX P2P monitor (src/arbitrage_bot.py).    *)
(*                                                                         *)
(* Numbers.  Prices, spreads and tolerances are floats in the program.     *)
(* Here they are fixed-point integers: one tick is 0.00005, so that        *)
(* ALERT_VALUE_TOLERANCE (0.0001) is 2 ticks and a value may differ from   *)
(* another by less than the tolerance.  Transaction limits are whole       *)
(* currency units.  Wall-clock time is whole seconds.                      *)
(*                                                                         *)
(* Optional values.  Python's None is the empty tuple and a present value  *)
(* v is the one-element tuple <<v>>.                                       *)
(***************************************************************************)
EXTENDS Integers, Sequences, FiniteSets, TLC

VARIABLES
    cfg,                    \* the env-driven tunables of the alert logic
    profit_thresholds_map,  \* parse_profit_thresholds(PROFIT_THRESHOLDS)
    pairs_to_monitor,       \* sequence of (currency, method, min-limit threshold)
    now,                    \* time.time(), in seconds
    active_states,          \* pair_key -> PairState record (a Python dict)
    pair_locks,             \* pair key -> the lock object stored for it (a number)
    did_startup_cleanup,    \* the startup cleanup flag
    sends,                  \* send_telegram_alert calls made by the step just taken
    evals,                  \* spread evaluations completed by the step just taken
    hist,                   \* pair_key -> dispatches of the current activation
    scenario,               \* dispatch types seen along the reference scenario
    skips,                  \* variants given up (`continue`) by the step just taken
    scan_buy,               \* upstream BUY listing met by a scan
    scan_sell,              \* upstream SELL listing met by a scan
    scan_pc,                \* what the scanning unit does next
    scan_out,               \* results of find_first_ad (BUY, SELL) and fast_probe_ads
    REQUESTS_PER_MINUTE,    \* the configured request rate
    token_bucket,           \* tokens (in 1/60 of a token) and time of the last refill
    token_lock,             \* the caller inside `with token_lock`, if any
    callers,                \* each caller's place in acquire_token_blocking
    empty_since,            \* refill time stamp at which the bucket was last found empty
    thr_env,                \* entries of the PROFIT_THRESHOLDS setting
    thr_pair,               \* the (currency, method) whose threshold is resolved
    thr_out,                \* the threshold resolved
    consecutive_429_count,  \* the consecutive-429 counter
    last_request_ts,        \* time of the last grant of rate_limit_wait
    last_request_lock,      \* the fetcher inside `with last_request_lock`, if any
    cooldowns,              \* history: extended cooldowns since the counter was last 0
    fetchers,               \* each fetch_page_raw call: place, attempt, locals
    workers,                \* each worker thread's place in process_pair
    loop,                   \* run_monitor_loop: place, cycle, units of the cycle
    startup_cleanup_lock,   \* the thread inside `with startup_cleanup_lock`, if any
    alerters,               \* each thread's place in send_telegram_alert
    telegram,               \* the Telegram side: settings, calls received
    lock_holder,            \* lock -> the thread that holds it, if any
    threads                 \* each thread's place among the lock operations

smvars == <<cfg, profit_thresholds_map, pairs_to_monitor, now, active_states,
            pair_locks, did_startup_cleanup, sends, evals, hist, scenario, skips>>

scanvars == <<scan_buy, scan_sell, scan_pc, scan_out>>

bucketvars == <<REQUESTS_PER_MINUTE, token_bucket, token_lock, callers, empty_since>>

thrvars == <<thr_env, thr_pair, thr_out>>

fetchvars == <<consecutive_429_count, last_request_ts, last_request_lock, cooldowns,
               fetchers>>

workvars == <<workers>>

loopvars == <<loop>>

cleanvars == <<startup_cleanup_lock, alerters, telegram>>

lockvars == <<lock_holder, threads>>

sidevars == <<cleanvars, lockvars>>

restvars == <<thrvars, fetchvars, workvars, loopvars, sidevars>>

vars == <<smvars, scanvars, bucketvars, restvars>>

----------------------------------------------------------------------------
(* Bounds of the model *)

\* the clock stops advancing here
MaxTime == 2

\* number of pages of an upstream listing
MaxListingPages == 3

\* largest configured request rate, number of concurrent callers of the
\* rate limiter, and the time at which the rate limiter's clock stops
MaxRPM == 2

NumCallers == 2

MaxBucketTime == 40

----------------------------------------------------------------------------
(* Program constants (defaults of the env-friendly config) *)

ALERT_VALUE_TOLERANCE == 2

TicksPerUnit == 10000 * ALERT_VALUE_TOLERANCE

PROFIT_THRESHOLD_PERCENT == 3 * TicksPerUnit

ALERT_UPDATE_MIN_DELTA_PERCENT == TicksPerUnit \div 100

ALERT_UPDATE_PRICE_CHANGE_PERCENT == TicksPerUnit \div 20

DEFAULT_MIN_LIMIT == 100

ROWS_PER_REQUEST == 20

FAST_PROBE_ROWS == 1

\* env MAX_SCAN_PAGES (default 8), kept small so that a listing can exceed it
MAX_SCAN_PAGES == 2

----------------------------------------------------------------------------
(* Optional values and arithmetic helpers *)

None == <<>>

Some(v) == <<v>>

Abs(x) == IF x < 0 THEN -x ELSE x

Min2(a, b) == IF a <= b THEN a ELSE b

\* floor(a * b / c) for c > 0, b >= 0, without forming a * b
MulDiv(a, b, c) == a * (b \div c) + (a * (b % c)) \div c

\* Python 3 round(n / d) for d > 0: to nearest, ties to the even integer
RoundHalfEven(n, d) ==
    LET q == n \div d
        r == n % d
    IN  IF 2 * r < d THEN q
        ELSE IF 2 * r > d THEN q + 1
        ELSE IF q % 2 = 0 THEN q ELSE q + 1

\* Python's `a or b` on optional numbers: None and 0 are falsy
OrElse(a, b) == IF a = None \/ a = Some(0) THEN b ELSE a

SafeFloat(val) == IF val = None THEN 0 ELSE val[1]

Take(s, n) == SubSeq(s, 1, Min2(n, Len(s)))

----------------------------------------------------------------------------
(* Static tables *)

UpperTable ==
    [s \in {"USD", "GBP", "NETELLER", "AirTM", "Skrill", "SkrillMoneybookers",
            "Skrill (Moneybookers)", "ALL", ""} |->
        CASE s = "AirTM" -> "AIRTM"
          [] s = "Skrill" -> "SKRILL"
          [] s = "SkrillMoneybookers" -> "SKRILLMONEYBOOKERS"
          [] s = "Skrill (Moneybookers)" -> "SKRILL (MONEYBOOKERS)"
          [] OTHER -> s]

Upper(s) == UpperTable[s]

friendly_pay_names(m) ==
    CASE m = "SkrillMoneybookers" -> "Skrill"
      [] OTHER -> m

paytype_variants_map(method) ==
    CASE method = "SkrillMoneybookers" ->
            <<"SkrillMoneybookers", "Skrill", "Skrill (Moneybookers)">>
      [] OTHER -> <<method>>

\* f"{currency}|{variant}"
PairKey(currency, variant) == <<currency, variant>>

\* parse_profit_thresholds: an entry is its left-hand side, split at ":", and
\* its value, None if it is not a number; a later entry overwrites an earlier
\* one with the same key
ParseProfitThresholds(entries) ==
    LET valid == {i \in DOMAIN entries : entries[i].val # None}
        key(i) == IF Len(entries[i].lhs) = 2
                  THEN <<Upper(entries[i].lhs[1]), Upper(entries[i].lhs[2])>>
                  ELSE <<Upper(entries[i].lhs[1]), "ALL">>
        last(k) == CHOOSE i \in valid : key(i) = k /\ \A j \in valid : key(j) = k => j <= i
    IN  [k \in {key(i) : i \in valid} |-> entries[last(k)].val[1]]

\* faulty variant: an entry for the method with the currency left open is
\* consulted before the global default
GetProfitThresholdForPairMethodFallback(cur, method, profit_map) ==
    IF cur = "" THEN PROFIT_THRESHOLD_PERCENT
    ELSE IF <<Upper(cur), Upper(method)>> \in DOMAIN profit_map
         THEN profit_map[<<Upper(cur), Upper(method)>>]
    ELSE IF <<Upper(cur), "ALL">> \in DOMAIN profit_map
         THEN profit_map[<<Upper(cur), "ALL">>]
    ELSE IF <<"ALL", Upper(method)>> \in DOMAIN profit_map
         THEN profit_map[<<"ALL", Upper(method)>>]
    ELSE PROFIT_THRESHOLD_PERCENT

GetProfitThresholdForPair(cur, method, profit_map) ==
    IF cur = "" THEN PROFIT_THRESHOLD_PERCENT
    ELSE IF <<Upper(cur), Upper(method)>> \in DOMAIN profit_map
         THEN profit_map[<<Upper(cur), Upper(method)>>]
    ELSE IF <<Upper(cur), "ALL">> \in DOMAIN profit_map
         THEN profit_map[<<Upper(cur), "ALL">>]
    ELSE PROFIT_THRESHOLD_PERCENT

----------------------------------------------------------------------------
(* Upstream advertisement source and the scanner *)

\* One record of the upstream "data" list.  A field the response leaves
\* out is None.
Entry(price, min, minDisplay, dynMax, max, nick) ==
    [adv |-> [price |-> price,
              minSingleTransAmount |-> min,
              minSingleTransAmountDisplay |-> minDisplay,
              dynamicMaxSingleTransAmount |-> dynMax,
              maxSingleTransAmount |-> max],
     advertiser |-> nick]

\* What one call of fetch_page_raw meets upstream for a page: the request
\* succeeds with a data list, or fails for good (retries exhausted, bad JSON).
PageOk(data) == [ok |-> TRUE, data |-> data]

PageFailed == [ok |-> FALSE, data |-> <<>>]

\* The value fetch_page_raw returns to its caller for `page` of an upstream
\* listing (a sequence of page outcomes): the data, cut to `rows`, or [] when
\* the request failed or the listing has no such page.
FetchPageRaw(upstream, page, rows) ==
    IF page > Len(upstream) THEN <<>>
    ELSE IF ~upstream[page].ok THEN <<>>
    ELSE Take(upstream[page].data, rows)

AdvPrice(entry) == SafeFloat(OrElse(entry.adv.price, Some(0)))

AdvMinLim(entry) ==
    SafeFloat(OrElse(OrElse(entry.adv.minSingleTransAmount,
                            entry.adv.minSingleTransAmountDisplay), Some(0)))

AdvMaxLim(entry) ==
    SafeFloat(OrElse(OrElse(entry.adv.dynamicMaxSingleTransAmount,
                            entry.adv.maxSingleTransAmount), Some(0)))

\* Faulty variant: an advert without a maximum is rejected.
QualifiesMaxChecked(entry, page_limit_threshold) ==
    AdvMinLim(entry) <= page_limit_threshold /\ AdvMaxLim(entry) > 0

\* Faulty variant: the minimum limit is not compared.
QualifiesAny(entry, page_limit_threshold) == TRUE

\* the test of find_first_ad on one entry
Qualifies(entry, page_limit_threshold) ==
    AdvMinLim(entry) <= page_limit_threshold

\* the dict find_first_ad returns
FoundAd(entry, trade_type, fiat, pay_type) ==
    [trade_type |-> trade_type,
     currency |-> fiat,
     payment_method |-> pay_type,
     price |-> AdvPrice(entry),
     min_limit |-> AdvMinLim(entry),
     max_limit |-> Some(AdvMaxLim(entry)),
     advertiser |-> entry.advertiser]

\* index of the first entry of items, from i on, that qualifies; 0 if none
RECURSIVE FirstMatch(_, _, _)
FirstMatch(items, i, page_limit_threshold) ==
    IF i > Len(items) THEN 0
    ELSE IF Qualifies(items[i], page_limit_threshold) THEN i
    ELSE FirstMatch(items, i + 1, page_limit_threshold)

\* if not items: break
StopsOnEmpty(items) == items = <<>>

\* Faulty variant: the scan gives up after the first page without a match.
NextPageNever(page) == MAX_SCAN_PAGES + page

\* the page loop goes on to the next page after a page without a match
NextPage(page) == page + 1

\* for page in range(page, MAX_SCAN_PAGES + 1): ...; return None
\* Returns the advert (or None), the number of pages requested and the
\* place of the advert in the last page requested.
RECURSIVE ScanPages(_, _, _, _, _, _, _)
ScanPages(upstream, page, trade_type, fiat, pay_type, page_limit_threshold, rows) ==
    IF page > MAX_SCAN_PAGES THEN [ad |-> None, requested |-> page - 1, index |-> 0]
    ELSE LET items == FetchPageRaw(upstream, page, rows)
             m == FirstMatch(items, 1, page_limit_threshold)
         IN  IF StopsOnEmpty(items) THEN [ad |-> None, requested |-> page, index |-> 0]
             ELSE IF m # 0
                  THEN [ad |-> Some(FoundAd(items[m], trade_type, fiat, pay_type)),
                        requested |-> page, index |-> m]
             ELSE ScanPages(upstream, NextPage(page), trade_type, fiat, pay_type,
                            page_limit_threshold, rows)

FindFirstAd(upstream, trade_type, fiat, pay_type, page_limit_threshold, rows) ==
    ScanPages(upstream, 1, trade_type, fiat, pay_type, page_limit_threshold, rows)

----------------------------------------------------------------------------
(* Pair state *)

DefaultState ==
    [active |-> FALSE,
     last_spread |-> None,
     last_buy_price |-> None,
     last_sell_price |-> None,
     since |-> None,
     last_sent_spread |-> None,
     last_sent_buy |-> None,
     last_sent_sell |-> None,
     last_sent_time |-> None,
     last_message_type |-> "None",
     last_sent_signature |-> None]

\* returns the stored record (a copy), or a fresh default that is not stored
GetActiveState(states, pair_key) ==
    IF pair_key \in DOMAIN states THEN states[pair_key] ELSE DefaultState

\* Faulty variant: the active flag is never written.
WithActiveIgnored(rec, active, t) == rec

\* Faulty variant: `if active:` in place of `if active is not None:`, so
\* that the flag is never cleared.
WithActiveSticky(rec, active, t) ==
    IF active = Some(TRUE)
    THEN [rec EXCEPT !.active = TRUE, !.since = Some(t)]
    ELSE rec

\* Faulty variant: the flag is written and `since` left as it was.
WithActiveFlagOnly(rec, active, t) ==
    IF active # None THEN [rec EXCEPT !.active = active[1]] ELSE rec

\* if active is not None: rec["active"] = bool(active); rec["since"] = ...

WithActive(rec, active, t) ==
    IF active # None
    THEN [rec EXCEPT !.active = active[1],
                     !.since = IF active[1] THEN Some(t) ELSE None]
    ELSE rec

\* Faulty variant: of the observed values only the spread is stored.
WithObservedSpreadOnly(rec, last_spread, last_buy_price, last_sell_price) ==
    [rec EXCEPT !.last_spread = IF last_spread # None THEN last_spread ELSE @]

\* the observed snapshot: each value that is given is stored
WithObserved(rec, last_spread, last_buy_price, last_sell_price) ==
    [rec EXCEPT
        !.last_spread = IF last_spread # None THEN last_spread ELSE @,
        !.last_buy_price = IF last_buy_price # None THEN last_buy_price ELSE @,
        !.last_sell_price = IF last_sell_price # None THEN last_sell_price ELSE @]

\* Faulty variant: the message type and the signature are not written.
MarkSentValuesOnly(rec, last_spread, last_buy_price, last_sell_price, last_sent_signature, last_message_type, t) ==
    [rec EXCEPT
        !.last_sent_spread = IF last_spread # None THEN last_spread ELSE @,
        !.last_sent_buy = IF last_buy_price # None THEN last_buy_price ELSE @,
        !.last_sent_sell = IF last_sell_price # None THEN last_sell_price ELSE @,
        !.last_sent_time = Some(t)]

\* the sent snapshot, written when mark_sent
MarkSent(rec, last_spread, last_buy_price, last_sell_price, last_sent_signature, last_message_type, t) ==
    [rec EXCEPT
        !.last_sent_spread = IF last_spread # None THEN last_spread ELSE @,
        !.last_sent_buy = IF last_buy_price # None THEN last_buy_price ELSE @,
        !.last_sent_sell = IF last_sell_price # None THEN last_sell_price ELSE @,
        !.last_sent_time = Some(t),
        !.last_message_type = IF last_message_type # "None" THEN last_message_type ELSE @,
        !.last_sent_signature = IF last_sent_signature # None THEN last_sent_signature ELSE @]

\* Faulty variant: the sent snapshot is written whatever mark_sent is.
WithSentAlways(rec, mark_sent, last_spread, last_buy_price, last_sell_price, last_sent_signature, last_message_type, t) ==
    MarkSent(rec, last_spread, last_buy_price, last_sell_price, last_sent_signature, last_message_type, t)

WithSent(rec, mark_sent, last_spread, last_buy_price, last_sell_price, last_sent_signature, last_message_type, t) ==
    IF mark_sent
    THEN MarkSent(rec, last_spread, last_buy_price, last_sell_price, last_sent_signature, last_message_type, t)
    ELSE rec

\* The record after set_active_state_snapshot; a keyword argument that is
\* not given (None) leaves its field alone.  t is time.time().
SnapshotRecord(rec, active, last_spread, last_buy_price, last_sell_price, mark_sent, last_sent_signature, last_message_type, t) ==
    WithSent(WithObserved(WithActive(rec, active, t), last_spread, last_buy_price, last_sell_price),
             mark_sent, last_spread, last_buy_price, last_sell_price, last_sent_signature, last_message_type, t)

\* Faulty variant: every write starts from a fresh default record.
SetActiveStateSnapshotFresh(states, pair_key, active, last_spread, last_buy_price, last_sell_price, mark_sent, last_sent_signature, last_message_type, t) ==
    [k \in DOMAIN states \cup {pair_key} |->
        IF k = pair_key
        THEN SnapshotRecord(DefaultState, active, last_spread,
                            last_buy_price, last_sell_price, mark_sent,
                            last_sent_signature, last_message_type, t)
        ELSE states[k]]

\* active_states after set_active_state_snapshot(pair_key, ...): the record
\* is created from the default on the first write
SetActiveStateSnapshot(states, pair_key, active, last_spread, last_buy_price, last_sell_price, mark_sent, last_sent_signature, last_message_type, t) ==
    [k \in DOMAIN states \cup {pair_key} |->
        IF k = pair_key
        THEN SnapshotRecord(GetActiveState(states, pair_key), active, last_spread,
                            last_buy_price, last_sell_price, mark_sent,
                            last_sent_signature, last_message_type, t)
        ELSE states[k]]

----------------------------------------------------------------------------
(* Update logic *)

\* math.isclose(a, b, rel_tol=0, abs_tol=tol); False when either is None
ValuesClose(a, b) ==
    IF a = None \/ b = None THEN FALSE
    ELSE Abs(a[1] - b[1]) <= ALERT_VALUE_TOLERANCE

\* relative_change_percent(old, new) >= ALERT_UPDATE_PRICE_CHANGE_PERCENT,
\* where relative_change_percent is abs((new - old) / old) * 100, and
\* infinite when old is None or 0.  Both sides are multiplied by |old| and
\* divided by the percentage, which divides 100 exactly.
RelativeChangeAtLeast(old, new) ==
    IF old = None \/ old = Some(0) THEN TRUE
    ELSE Abs(new - old[1]) * ((100 * TicksPerUnit) \div ALERT_UPDATE_PRICE_CHANGE_PERCENT)
            >= Abs(old[1])

ComputeSignature(spread, buy, sell) ==
    <<RoundHalfEven(spread, ALERT_VALUE_TOLERANCE),
      RoundHalfEven(buy, ALERT_VALUE_TOLERANCE),
      RoundHalfEven(sell, ALERT_VALUE_TOLERANCE)>>

\* Faulty variant: the signature check is left out.
SignatureGuardOff(c, pair_state, signature) == FALSE

\* the quick signature check of should_send_update
SignatureGuard(c, pair_state, signature) ==
    /\ c.ALERT_DEDUP_MODE = "exact"
    /\ signature # None
    /\ pair_state.last_sent_signature # None
    /\ pair_state.last_sent_signature = signature

\* Faulty variant: the values are compared with the last observed snapshot.
ShouldSendUpdateObserved(c, pair_state, new_spread, new_buy, new_sell, signature) ==
    LET last_spread == pair_state.last_spread
        last_buy == pair_state.last_buy_price
        last_sell == pair_state.last_sell_price
    IN  IF SignatureGuard(c, pair_state, signature) THEN FALSE
        ELSE IF last_spread = None /\ last_buy = None /\ last_sell = None THEN TRUE
        ELSE IF c.ALERT_UPDATE_ON_ANY_CHANGE = "1"
             THEN \/ ~ValuesClose(last_spread, Some(new_spread))
                  \/ ~ValuesClose(last_buy, Some(new_buy))
                  \/ ~ValuesClose(last_sell, Some(new_sell))
        ELSE \/ last_spread = None
             \/ Abs(new_spread - last_spread[1]) >= c.ALERT_UPDATE_MIN_DELTA_PERCENT
             \/ RelativeChangeAtLeast(last_buy, new_buy)
             \/ RelativeChangeAtLeast(last_sell, new_sell)

\* Faulty variant: every observation is significant.
ShouldSendUpdateAlways(c, pair_state, new_spread, new_buy, new_sell, signature) == TRUE

ShouldSendUpdate(c, pair_state, new_spread, new_buy, new_sell, signature) ==
    LET last_sent_spread == pair_state.last_sent_spread
        last_sent_buy == pair_state.last_sent_buy
        last_sent_sell == pair_state.last_sent_sell
        spread_diff == IF last_sent_spread = None THEN Abs(new_spread)
                       ELSE Abs(new_spread - last_sent_spread[1])
    IN  IF SignatureGuard(c, pair_state, signature) THEN FALSE
        ELSE IF last_sent_spread = None /\ last_sent_buy = None /\ last_sent_sell = None
             THEN TRUE
        ELSE IF c.ALERT_UPDATE_ON_ANY_CHANGE = "1"
             THEN \/ ~ValuesClose(last_sent_spread, Some(new_spread))
                  \/ ~ValuesClose(last_sent_buy, Some(new_buy))
                  \/ ~ValuesClose(last_sent_sell, Some(new_sell))
        ELSE IF spread_diff >= c.ALERT_UPDATE_MIN_DELTA_PERCENT THEN TRUE
        ELSE IF last_sent_buy # None /\ RelativeChangeAtLeast(last_sent_buy, new_buy)
             THEN TRUE
        ELSE IF last_sent_sell # None /\ RelativeChangeAtLeast(last_sent_sell, new_sell)
             THEN TRUE
        ELSE FALSE

\* faulty variant: the cooldown is not applied
CanSendStartAlways(c, pair_state, t) == TRUE

CanSendStart(c, pair_state, t) ==
    IF pair_state.last_sent_time = None \/ c.ALERT_TTL_SECONDS <= 0 THEN TRUE
    ELSE (t - pair_state.last_sent_time[1]) >= c.ALERT_TTL_SECONDS

----------------------------------------------------------------------------
(* Core processing: fast probe, full scan, evaluation, decision *)

\* ((sell_price / buy_price) - 1.0) * 100.0, for buy_price > 0
SpreadPercent(sell_price, buy_price) ==
    MulDiv(sell_price - buy_price, 100 * TicksPerUnit, buy_price)

\* the dicts fast_probe_ads builds carry no max_limit
ProbeAd(entry, trade_type, currency, variant) ==
    [trade_type |-> trade_type,
     currency |-> currency,
     payment_method |-> variant,
     price |-> AdvPrice(entry),
     min_limit |-> AdvMinLim(entry),
     max_limit |-> None,
     advertiser |-> entry.advertiser]

\* faulty variant: the probe does not compare the BUY side's minimum limit
FastProbeAdsAnyLimit(upBuy, upSell, currency, variant, threshold) ==
    LET buy_items == FetchPageRaw(upBuy, 1, FAST_PROBE_ROWS)
        sell_items == FetchPageRaw(upSell, 1, FAST_PROBE_ROWS)
        miss == [buyer_ad |-> None, seller_ad |-> None]
    IN  IF buy_items = <<>> \/ sell_items = <<>> THEN miss
        ELSE LET b == buy_items[1]
                 s == sell_items[1]
             IN  IF /\ AdvMinLim(s) <= threshold
                    /\ AdvPrice(s) > 0
                    /\ SpreadPercent(AdvPrice(b), AdvPrice(s)) >= PROFIT_THRESHOLD_PERCENT
                 THEN [buyer_ad |-> Some(ProbeAd(b, "BUY", currency, variant)),
                       seller_ad |-> Some(ProbeAd(s, "SELL", currency, variant))]
                 ELSE miss

FastProbeAds(upBuy, upSell, currency, variant, threshold) ==
    LET buy_items == FetchPageRaw(upBuy, 1, FAST_PROBE_ROWS)
        sell_items == FetchPageRaw(upSell, 1, FAST_PROBE_ROWS)
        miss == [buyer_ad |-> None, seller_ad |-> None]
    IN  IF buy_items = <<>> \/ sell_items = <<>> THEN miss
        ELSE LET b == buy_items[1]
                 s == sell_items[1]
             IN  IF /\ AdvMinLim(b) <= threshold
                    /\ AdvMinLim(s) <= threshold
                    /\ AdvPrice(s) > 0
                    /\ SpreadPercent(AdvPrice(b), AdvPrice(s)) >= PROFIT_THRESHOLD_PERCENT
                 THEN [buyer_ad |-> Some(ProbeAd(b, "BUY", currency, variant)),
                       seller_ad |-> Some(ProbeAd(s, "SELL", currency, variant))]
                 ELSE miss

\* The adverts process_pair works with: the probe's, or else the two full
\* scans' (run in two sub-tasks, both joined before the evaluation).
FoundAds(upBuy, upSell, currency, variant, threshold) ==
    LET probe == FastProbeAds(upBuy, upSell, currency, variant, threshold)
    IN  IF probe.buyer_ad # None /\ probe.seller_ad # None THEN probe
        ELSE [buyer_ad |-> FindFirstAd(upBuy, "BUY", currency, variant, threshold,
                                       ROWS_PER_REQUEST).ad,
              seller_ad |-> FindFirstAd(upSell, "SELL", currency, variant, threshold,
                                        ROWS_PER_REQUEST).ad]

Send(pair_key, type, sent) == [key |-> pair_key, type |-> type, sent |-> sent]

\* Faulty variant: a failed send stores the observed snapshot.
AfterFailedSendObserved(states, pair_key, spread_percent, buy_price, sell_price, t) ==
    SetActiveStateSnapshot(states, pair_key, None, Some(spread_percent), Some(buy_price), Some(sell_price), FALSE, None, "None", t)

\* active_states after a send that failed: the branch only logs a warning
AfterFailedSend(states, pair_key, spread_percent, buy_price, sell_price, t) == states

\* The start / update / end decision of process_pair for one evaluation.
\* `sent` is what send_telegram_alert returns if it is called.
DecideOn(c, state, states, pair_key, spread_percent, buy_price, sell_price, profit_thr, sent, t) ==
    LET was_active == state.active
        current_sig == ComputeSignature(spread_percent, buy_price, sell_price)
        should == ShouldSendUpdate(c, state, spread_percent, buy_price, sell_price,
                                   Some(current_sig))
        Quiet(active) ==
            [states |-> SetActiveStateSnapshot(states, pair_key, Some(active),
                            Some(spread_percent), Some(buy_price), Some(sell_price),
                            FALSE, None, "None", t),
             sends |-> <<>>]
        Dispatch(active, type) ==
            [states |-> IF sent
                        THEN SetActiveStateSnapshot(states, pair_key, Some(active),
                                 Some(spread_percent), Some(buy_price), Some(sell_price),
                                 TRUE, Some(current_sig), type, t)
                        ELSE AfterFailedSend(states, pair_key, spread_percent,
                                             buy_price, sell_price, t),
             sends |-> <<Send(pair_key, type, sent)>>]
    IN  IF spread_percent >= profit_thr
        THEN IF ~was_active
             THEN IF ~should THEN Quiet(TRUE)
                  ELSE IF CanSendStart(c, state, t) THEN Dispatch(TRUE, "start")
                  ELSE Quiet(TRUE)
             ELSE IF should THEN Dispatch(TRUE, "update")
                  ELSE Quiet(TRUE)
        ELSE IF was_active
             THEN IF should THEN Dispatch(FALSE, "end")
                  ELSE Quiet(FALSE)
             ELSE Quiet(FALSE)

\* state = get_active_state(pair_key), and the decision taken on that copy
Decide(c, states, pair_key, spread_percent, buy_price, sell_price, profit_thr, sent, t) ==
    DecideOn(c, GetActiveState(states, pair_key), states, pair_key, spread_percent,
             buy_price, sell_price, profit_thr, sent, t)

\* faulty variant: a variant given up leaves its pair inactive
SkippedInactive(states, pair_key) ==
    IF pair_key \in DOMAIN states
    THEN [states EXCEPT ![pair_key].active = FALSE]
    ELSE states

\* the pair states after `continue`: a variant given up for a missing advert
\* or a failed spread calculation touches no state
Skipped(states, pair_key) == states

\* faulty variant: every request for the lock of a key makes a new lock
PairLockFresh(locks, pair_key) ==
    IF pair_key \in DOMAIN locks THEN locks[pair_key] + 1 ELSE 1

\* get_pair_lock: the lock stored for the key, or a new one.  A lock object
\* is the number of locks made for its key so far
PairLockFor(locks, pair_key) ==
    IF pair_key \in DOMAIN locks THEN locks[pair_key] ELSE 1

\* faulty variant: the loop goes on to the next variant after an evaluation
AfterEvaluationNoBreak(done, rest) ==
    [states |-> rest.states,
     sends |-> done.sends \o rest.sends,
     evals |-> done.evals \o rest.evals,
     locks |-> done.locks \cup rest.locks,
     skips |-> rest.skips]

\* `# processed variant -> break`: the unit ends with the variant evaluated,
\* and the variants after it are not run
AfterEvaluation(done, rest) == done

\* for variant in variants: ...  Each `continue` of the body goes on to the
\* next variant; the `break` after a completed evaluation ends the loop.
\* mk[i] is the upstream listing met for variant i.
RECURSIVE RunVariants(_, _, _, _, _, _, _, _, _, _)
RunVariants(c, pmap, states, currency, variants, i, threshold, mk, sent, t) ==
    IF i > Len(variants)
    THEN [states |-> states, sends |-> <<>>, evals |-> <<>>, locks |-> {}, skips |-> <<>>]
    ELSE LET variant == variants[i]
             pair_key == PairKey(currency, variant)
             ads == FoundAds(mk[i].buy, mk[i].sell, currency, variant, threshold)
             skip(why) ==
                [RunVariants(c, pmap, Skipped(states, pair_key), currency, variants,
                             i + 1, threshold, mk, sent, t)
                    EXCEPT !.locks = @ \cup {pair_key},
                           !.skips = <<[key |-> pair_key, why |-> why,
                                        ads |-> ads]>> \o @]
         IN  IF ads.buyer_ad = None \/ ads.seller_ad = None THEN skip("missing ad")
             ELSE LET sell_price == ads.buyer_ad[1].price
                      buy_price == ads.seller_ad[1].price
                  IN  IF buy_price = 0 THEN skip("spread calc error")
                      ELSE LET spread_percent == SpreadPercent(sell_price, buy_price)
                               profit_thr == GetProfitThresholdForPair(currency,
                                                 friendly_pay_names(variant), pmap)
                               d == Decide(c, states, pair_key, spread_percent,
                                           buy_price, sell_price, profit_thr, sent, t)
                           IN  AfterEvaluation(
                                   [states |-> d.states,
                                    sends |-> d.sends,
                                    evals |-> <<[key |-> pair_key,
                                                 spread |-> spread_percent,
                                                 buy |-> buy_price,
                                                 sell |-> sell_price,
                                                 thr |-> profit_thr]>>,
                                    locks |-> {pair_key},
                                    skips |-> <<>>],
                                   RunVariants(c, pmap, d.states, currency, variants,
                                               i + 1, threshold, mk, sent, t))

----------------------------------------------------------------------------
(* Environment of the pair state machine: configurations and listings *)

\* The settings of ALERT_TTL_SECONDS, ALERT_DEDUP_MODE, ALERT_UPDATE_ON_ANY_CHANGE
\* and ALERT_UPDATE_MIN_DELTA_PERCENT that are explored: every combination
\* of TTL and significance mode under the default dedup mode "exact", both
\* significance modes under another dedup mode, and a minimum delta of 0
\* under each dedup mode.
Configs ==
    {c \in [ALERT_TTL_SECONDS : {0, 2},
            ALERT_DEDUP_MODE : {"exact", "approx"},
            ALERT_UPDATE_ON_ANY_CHANGE : {"1", "0"},
            ALERT_UPDATE_MIN_DELTA_PERCENT : {ALERT_UPDATE_MIN_DELTA_PERCENT, 0}] :
        /\ c.ALERT_DEDUP_MODE = "approx" => c.ALERT_TTL_SECONDS = 0
        /\ c.ALERT_UPDATE_MIN_DELTA_PERCENT = 0 =>
                c.ALERT_TTL_SECONDS = 0 /\ c.ALERT_UPDATE_ON_ANY_CHANGE = "0"}

\* an advert with small minimum limit and the given price
Advert(price) == Entry(Some(price), Some(50), None, None, Some(500), "adv")

OnePage(entry) == <<PageOk(<<entry>>)>>

\* prices (ticks) met on the BUY page while the SELL page shows 100.00:
\* 100.50, 100.50005, 100.52, 100.10, 100.405, 100.398, 103.00
BuyPagePrices == {2010000, 2010001, 2010400, 2002000, 2008100, 2007960, 2060000}

SellPage == OnePage(Advert(2000000))

Markets ==
    {[buy |-> OnePage(Advert(p)), sell |-> SellPage] : p \in BuyPagePrices}
    \cup
    {   \* the BUY listing is empty
        [buy |-> <<PageOk(<<>>)>>, sell |-> SellPage],
        \* the SELL request fails for good
        [buy |-> OnePage(Advert(2010000)), sell |-> <<PageFailed>>],
        \* the SELL advert has no price
        [buy |-> OnePage(Advert(2010000)),
         sell |-> OnePage(Entry(None, Some(50), None, None, Some(500), "adv"))],
        \* the first BUY page holds only an advert whose minimum is too high
        [buy |-> <<PageOk(<<Entry(Some(2060000), Some(150), None, None, Some(500), "big")>>),
                   PageOk(<<Advert(2010400)>>)>>,
         sell |-> SellPage],
        \* every BUY page within the page budget holds only an advert whose
        \* minimum is too high; the page after the budget holds a good one
        [buy |-> [pg \in 1..(MAX_SCAN_PAGES + 1) |->
                    IF pg <= MAX_SCAN_PAGES
                    THEN PageOk(<<Entry(Some(2060000), Some(150), None, None, Some(500), "big")>>)
                    ELSE PageOk(<<Advert(2010400)>>)],
         sell |-> SellPage],
        \* other price level: 50.25 against 50.00
        [buy |-> OnePage(Advert(1005000)), sell |-> OnePage(Advert(1000000))]
    }

----------------------------------------------------------------------------
(* History kept for the properties *)

NoDispatches == [starts |-> 0, updates |-> 0]

HistOf(h, k) == IF k \in DOMAIN h THEN h[k] ELSE NoDispatches

\* number of successful sends of `type` for key k, at most 2
Sent(snds, k, type) ==
    Min2(2, Cardinality({j \in DOMAIN snds :
                            snds[j].key = k /\ snds[j].type = type /\ snds[j].sent}))

\* The dispatches of the current activation of each pair: counted from the
\* step that takes the pair from Inactive to Active.
HistAfter(h, old, new, snds) ==
    [k \in DOMAIN new |->
        IF ~new[k].active THEN NoDispatches
        ELSE IF ~GetActiveState(old, k).active
             THEN [starts |-> Sent(snds, k, "start"), updates |-> Sent(snds, k, "update")]
        ELSE [starts |-> Min2(2, HistOf(h, k).starts + Sent(snds, k, "start")),
              updates |-> Min2(2, HistOf(h, k).updates + Sent(snds, k, "update"))]]

\* the reference scenario: prices from the BUY page and the SELL page
ScenarioObs ==
    <<[sell |-> 2010000, buy |-> 2000000],
      [sell |-> 2010000, buy |-> 2000000],
      [sell |-> 2010400, buy |-> 2000000],
      [sell |-> 2002000, buy |-> 2000000],
      [sell |-> 2002000, buy |-> 2000000]>>

ScenarioOff == <<"off">>

\* Follows the evaluations from the initial state for as long as they are
\* the scenario's, with threshold 0.4, minimum delta 0.01 and no failed
\* send, and records what each one dispatched.
ScenarioAfter(sc, c, evs, snds) ==
    IF sc = ScenarioOff \/ Len(sc) >= Len(ScenarioObs) THEN sc
    ELSE IF /\ c.ALERT_UPDATE_MIN_DELTA_PERCENT = ALERT_UPDATE_MIN_DELTA_PERCENT
            /\ Len(evs) = 1
            /\ evs[1].thr = (4 * TicksPerUnit) \div 10
            /\ evs[1].sell = ScenarioObs[Len(sc) + 1].sell
            /\ evs[1].buy = ScenarioObs[Len(sc) + 1].buy
            /\ \A j \in DOMAIN snds : snds[j].sent
         THEN Append(sc, IF snds = <<>> THEN "none" ELSE snds[1].type)
    ELSE ScenarioOff

----------------------------------------------------------------------------
(* The pair state machine *)

SMInit ==
    /\ cfg \in Configs
    /\ profit_thresholds_map = [k \in {<<"USD", "NETELLER">>} |-> (4 * TicksPerUnit) \div 10]
    /\ pairs_to_monitor = <<[cur |-> "USD", m |-> "NETELLER", thr |-> DEFAULT_MIN_LIMIT]>>
    /\ now = 0
    /\ active_states = [k \in {} |-> DefaultState]
    /\ pair_locks = [k \in {} |-> 0]
    /\ did_startup_cleanup = FALSE
    /\ sends = <<>>
    /\ evals = <<>>
    /\ hist = [k \in {} |-> NoDispatches]
    /\ scenario = <<>>
    /\ skips = <<>>

\* time passes
Tick ==
    /\ now < MaxTime
    /\ now' = now + 1
    /\ sends' = <<>>
    /\ evals' = <<>>
    /\ skips' = <<>>
    /\ UNCHANGED <<cfg, profit_thresholds_map, pairs_to_monitor, active_states,
                   pair_locks, did_startup_cleanup, hist, scenario>>
    /\ UNCHANGED <<scanvars, bucketvars, restvars>>

\* process_pair(cur, m, thr) for the i-th monitored pair, run to its return
\* under the pair lock, against listings drawn from `markets`
RunUnit(i, markets) ==
    LET p == pairs_to_monitor[i]
        variants == paytype_variants_map(p.m)
    IN  \E mk \in [DOMAIN variants -> markets], sent \in BOOLEAN :
            \E r \in {RunVariants(cfg, profit_thresholds_map, active_states, p.cur,
                                  variants, 1, p.thr, mk, sent, now)} :
                /\ active_states' = r.states
                /\ pair_locks' = [k \in DOMAIN pair_locks \cup r.locks |->
                                        PairLockFor(pair_locks, k)]
                /\ did_startup_cleanup' = (did_startup_cleanup \/ r.sends # <<>>)
                /\ sends' = r.sends
                /\ evals' = r.evals
                /\ skips' = r.skips
                /\ hist' = HistAfter(hist, active_states, r.states, r.sends)
                /\ scenario' = ScenarioAfter(scenario, cfg, r.evals, r.sends)
                /\ UNCHANGED <<cfg, profit_thresholds_map, pairs_to_monitor, now>>

\* one unit of work
ProcessPair(i) ==
    /\ RunUnit(i, Markets)
    /\ UNCHANGED <<scanvars, bucketvars, restvars>>

\* no scan is under way
ScanIdle ==
    /\ scan_buy = <<>>
    /\ scan_sell = <<>>
    /\ scan_pc = "idle"
    /\ scan_out = <<>>

\* one token, in the unit of token_bucket.tokens: refill is
\* (elapsed / 60.0) * REQUESTS_PER_MINUTE tokens for elapsed whole seconds
TokenScale == 60

Max2(a, b) == IF a > b THEN a ELSE b

\* "tokens": float(max(1, REQUESTS_PER_MINUTE)), "last_refill": time.time()
InitialBucket(rpm, t) == [tokens |-> TokenScale * Max2(1, rpm), last_refill |-> t]

\* no caller is in the rate limiter
BucketIdle ==
    /\ REQUESTS_PER_MINUTE = 1
    /\ token_bucket = InitialBucket(REQUESTS_PER_MINUTE, now)
    /\ token_lock = None
    /\ callers = <<>>
    /\ empty_since = None

\* clock ticks per second, where the clock counts quarter seconds
ClockRate == 4

Seconds(n) == n * ClockRate

\* the epoch (0.0 of time.time()) on the clock of this model, which is at 0
\* when the program starts: further back than any interval waited for
Epoch == 0 - 2 * 64 * Seconds(60)

\* no threshold is being resolved
ThrIdle ==
    /\ thr_env = <<>>
    /\ thr_pair = <<>>
    /\ thr_out = None

\* no page is being fetched
FetchIdle ==
    /\ consecutive_429_count = 0
    /\ last_request_ts = Epoch
    /\ last_request_lock = None
    /\ cooldowns = 0
    /\ fetchers = <<>>

\* no worker thread is running
WorkIdle == workers = <<>>

\* the monitor loop is not running
LoopIdle == loop = <<>>

\* no alert is being sent
CleanIdle ==
    /\ startup_cleanup_lock = None
    /\ alerters = <<>>
    /\ telegram = <<>>

\* no thread is followed through its lock operations
LockIdle ==
    /\ lock_holder = <<>>
    /\ threads = <<>>

SideIdle == CleanIdle /\ LockIdle

RestIdle == ThrIdle /\ FetchIdle /\ WorkIdle /\ LoopIdle /\ SideIdle

Init == SMInit /\ ScanIdle /\ BucketIdle /\ RestIdle

Next ==
    \/ Tick
    \/ \E i \in DOMAIN pairs_to_monitor : ProcessPair(i)

Spec == Init /\ [][Next]_vars

----------------------------------------------------------------------------
(* Properties of the pair state machine *)

Keys == DOMAIN active_states

\* the send of the step just taken for key k succeeded / failed
SentOk(snds, k) == \E j \in DOMAIN snds : snds[j].key = k /\ snds[j].sent

SentFailed(snds, k) == \E j \in DOMAIN snds : snds[j].key = k /\ ~snds[j].sent

SentType(snds, k, type) ==
    \E j \in DOMAIN snds : snds[j].key = k /\ snds[j].sent /\ snds[j].type = type

EvalSignature(e) == Some(ComputeSignature(e.spread, e.buy, e.sell))

\* the sent snapshot of a record
SentSnapshot(rec) ==
    <<rec.last_sent_spread, rec.last_sent_buy, rec.last_sent_sell,
      rec.last_sent_time, rec.last_message_type, rec.last_sent_signature>>

ObservedSnapshot(rec) == <<rec.last_spread, rec.last_buy_price, rec.last_sell_price>>

\* C1 as stated: every activation has exactly one start notification, sent
\* before any update: a pair that is Active has had one start dispatched in
\* its current activation.
C1_ExactlyOneStart ==
    \A k \in Keys : active_states[k].active => HistOf(hist, k).starts = 1

\* C1 amended: an activation has at most one start, and a start is dispatched
\* only by the evaluation that takes the pair from Inactive to Active, hence
\* before every update of that activation; an activation entered while the
\* start is suppressed has none.
C1_AtMostOneStartOnEntry ==
    [][\A k \in DOMAIN active_states' :
          /\ HistOf(hist', k).starts <= 1
          /\ SentType(sends', k, "start") =>
                /\ ~GetActiveState(active_states, k).active
                /\ active_states'[k].active
                /\ hist'[k] = [starts |-> 1, updates |-> 0]
          /\ SentType(sends', k, "update") =>
                GetActiveState(active_states, k).active]_vars

\* an activation with its start and a later update
C1_Witness ==
    \E k \in Keys :
        /\ active_states[k].active
        /\ HistOf(hist, k).starts = 1
        /\ HistOf(hist, k).updates >= 1

\* C2 as stated: a notification is never dispatched with the signature of
\* the notification dispatched before it for the same pair.
C2_NeverSameSignature ==
    [][\A j \in DOMAIN sends' :
          sends'[j].sent =>
              EvalSignature(evals'[1])
                  # GetActiveState(active_states, sends'[j].key).last_sent_signature]_vars

\* C2 amended: when ALERT_DEDUP_MODE is "exact", a notification is never
\* dispatched with the signature of the notification dispatched before it
\* for the same pair, and the stored signature is the dispatched one.
C2_NeverSameSignatureExact ==
    [][\A j \in DOMAIN sends' :
          (cfg.ALERT_DEDUP_MODE = "exact" /\ sends'[j].sent) =>
              /\ EvalSignature(evals'[1])
                    # GetActiveState(active_states, sends'[j].key).last_sent_signature
              /\ active_states'[sends'[j].key].last_sent_signature
                    = EvalSignature(evals'[1])]_vars

\* in exact mode, an update has been dispatched after the start of an
\* activation, and its signature is the stored one
C2_Witness ==
    /\ cfg.ALERT_DEDUP_MODE = "exact"
    /\ \E k \in Keys :
        /\ SentType(sends, k, "update")
        /\ HistOf(hist, k).starts = 1
        /\ active_states[k].last_sent_signature = EvalSignature(evals[1])

\* what the scenario dispatches, evaluation by evaluation
ScenarioExpected == <<"start", "none", "update", "end", "none">>

\* C3: from a fresh pair with threshold 0.4, the evaluations 0.5 (100.50 /
\* 100.00), unchanged, 0.52, 0.1, 0.1 dispatch start, nothing, update, end,
\* nothing, when every send succeeds.
C3_Scenario ==
    scenario # ScenarioOff =>
        scenario = SubSeq(ScenarioExpected, 1, Len(scenario))

C3_Witness == scenario = ScenarioExpected

\* C4 as stated: after every evaluation the pair is Active iff the spread
\* just evaluated is >= the resolved profit threshold, whatever the outcome
\* of the dispatch.
C4_ActiveIffAboveThreshold ==
    \A j \in DOMAIN evals :
        GetActiveState(active_states, evals[j].key).active
            <=> (evals[j].spread >= evals[j].thr)

\* C4 amended: after an evaluation in which no dispatch failed the pair is
\* Active iff the spread just evaluated is >= the resolved profit threshold;
\* an evaluation whose dispatch failed leaves the active flag as it was.
C4_ActiveIffAboveThresholdUnlessFailed ==
    [][\A j \in DOMAIN evals' :
          LET k == evals'[j].key
          IN  IF SentFailed(sends', k)
              THEN GetActiveState(active_states', k).active
                        = GetActiveState(active_states, k).active
              ELSE GetActiveState(active_states', k).active
                        <=> (evals'[j].spread >= evals'[j].thr)]_vars

\* an Active pair has become Inactive on a spread below the threshold
C4_Witness ==
    \E j \in DOMAIN evals :
        /\ evals[j].spread < evals[j].thr
        /\ evals[j].key \in Keys
        /\ ~active_states[evals[j].key].active
        /\ active_states[evals[j].key].last_message_type = "end"
        /\ SentType(sends, evals[j].key, "end")

\* C5 as stated: a failed dispatch updates the observed snapshot to the
\* values just evaluated and leaves the sent snapshot unchanged.
C5_FailedSendUpdatesObserved ==
    [][\A j \in DOMAIN evals' :
          LET k == evals'[j].key
          IN  SentFailed(sends', k) =>
                /\ ObservedSnapshot(GetActiveState(active_states', k))
                     = <<Some(evals'[j].spread), Some(evals'[j].buy), Some(evals'[j].sell)>>
                /\ SentSnapshot(GetActiveState(active_states', k))
                     = SentSnapshot(GetActiveState(active_states, k))]_vars

\* C5 amended: a failed dispatch leaves the whole state map unchanged: the
\* sent snapshot, the active flag and also the observed snapshot, which is
\* not updated to the values just evaluated.
C5_FailedSendChangesNothing ==
    [][\A j \in DOMAIN sends' :
          ~sends'[j].sent => active_states' = active_states]_vars

\* a dispatch has failed for a pair that has a sent snapshot, on values that
\* are not the observed ones
C5_Witness ==
    \E j \in DOMAIN evals :
        /\ SentFailed(sends, evals[j].key)
        /\ evals[j].key \in Keys
        /\ active_states[evals[j].key].last_sent_spread # None
        /\ active_states[evals[j].key].last_spread # Some(evals[j].spread)

\* C6: the sent snapshot of a pair changes only in a step in which a
\* notification for that pair was dispatched successfully.
C6_SentSnapshotFrame ==
    [][\A k \in DOMAIN active_states' :
          SentSnapshot(active_states'[k]) # SentSnapshot(GetActiveState(active_states, k))
              => SentOk(sends', k)]_vars

\* an evaluation without dispatch has moved the observed snapshot away from
\* the sent one
C6_Witness ==
    \E j \in DOMAIN evals :
        /\ evals[j].key \in Keys
        /\ sends = <<>>
        /\ active_states[evals[j].key].last_sent_spread # None
        /\ active_states[evals[j].key].last_spread = Some(evals[j].spread)
        /\ active_states[evals[j].key].last_sent_spread # Some(evals[j].spread)

\* the pair's last notification was an end and the pair is Inactive
Ended(rec) == ~rec.active /\ rec.last_message_type = "end"

\* C21: an end notification is dispatched only for a pair that is Active,
\* and its success leaves the pair Inactive with the end as its last
\* notification; from then on, as long as no evaluation of the pair has a
\* spread at or above the threshold, the pair stays so and no end is
\* dispatched for it, whatever the values evaluated.
C21_NoSecondEnd ==
    [][\A k \in DOMAIN active_states' :
          /\ (\E j \in DOMAIN sends' : sends'[j].key = k /\ sends'[j].type = "end")
                => GetActiveState(active_states, k).active
          /\ SentType(sends', k, "end") => Ended(active_states'[k])
          /\ (/\ Ended(GetActiveState(active_states, k))
              /\ \A j \in DOMAIN evals' :
                    evals'[j].key = k => evals'[j].spread < evals'[j].thr)
                => /\ Ended(active_states'[k])
                   /\ \A j \in DOMAIN sends' : sends'[j].key # k]_vars

\* a pair whose end was sent has just been evaluated below the threshold on
\* values that are significant against the sent snapshot, and nothing was
\* dispatched
C21_Witness ==
    \E j \in DOMAIN evals :
        /\ evals[j].key \in Keys
        /\ Ended(active_states[evals[j].key])
        /\ evals[j].spread < evals[j].thr
        /\ sends = <<>>
        /\ active_states[evals[j].key].last_spread = Some(evals[j].spread)
        /\ ShouldSendUpdate(cfg, active_states[evals[j].key], evals[j].spread,
                            evals[j].buy, evals[j].sell, EvalSignature(evals[j]))


----------------------------------------------------------------------------
(* The scanner on its own: one probe and one scan of each side *)

\* records of the upstream data list: a qualifying advert, one whose minimum
\* is too high, one with neither price nor maximum and only a display
\* minimum, and one whose minimum equals the threshold and whose maximum is
\* small
RawAds ==
    {Entry(Some(2080000), Some(50), None, None, Some(500), "q1"),
     Entry(Some(2090000), Some(150), None, None, Some(500), "n1"),
     Entry(None, None, Some(80), None, None, "q0"),
     Entry(Some(2010000), Some(DEFAULT_MIN_LIMIT), None, Some(20), Some(900), "q2")}

HighMinAds == {e \in RawAds : e.advertiser \in {"n1", "q2"}}

\* outcomes of one page request: failure, an empty list, one row, two rows
ListingPages ==
    {PageFailed, PageOk(<<>>)}
    \cup {PageOk(<<a>>) : a \in RawAds}
    \cup {PageOk(<<a, b>>) : a \in HighMinAds, b \in RawAds}

BuyListings == [1..MaxListingPages -> ListingPages]

SellListings ==
    {OnePage(Advert(2000000)),
     <<PageOk(<<Entry(Some(1990000), Some(150), None, None, None, "n2")>>),
       PageOk(<<Advert(2000000)>>)>>}

ScanInit ==
    /\ cfg = [ALERT_TTL_SECONDS |-> 0,
              ALERT_DEDUP_MODE |-> "exact",
              ALERT_UPDATE_ON_ANY_CHANGE |-> "1",
              ALERT_UPDATE_MIN_DELTA_PERCENT |-> ALERT_UPDATE_MIN_DELTA_PERCENT]
    /\ SMInit
    /\ scan_buy \in BuyListings
    /\ scan_sell \in SellListings
    /\ scan_pc = "probe"
    /\ scan_out = [probe |-> None, buy |-> None, sell |-> None]
    /\ BucketIdle
    /\ RestIdle

\* probe = fast_probe_ads(currency, variant, threshold)
Probe ==
    /\ scan_pc = "probe"
    /\ scan_out' = [scan_out EXCEPT !.probe =
            Some(FastProbeAds(scan_buy, scan_sell, pairs_to_monitor[1].cur,
                              pairs_to_monitor[1].m, pairs_to_monitor[1].thr))]
    /\ scan_pc' = "buy"
    /\ UNCHANGED <<smvars, scan_buy, scan_sell, bucketvars, restvars>>

\* buyer_ad = find_first_ad(currency, variant, "BUY", threshold)
ScanBuy ==
    /\ scan_pc = "buy"
    /\ scan_out' = [scan_out EXCEPT !.buy =
            Some(FindFirstAd(scan_buy, "BUY", pairs_to_monitor[1].cur,
                             pairs_to_monitor[1].m, pairs_to_monitor[1].thr,
                             ROWS_PER_REQUEST))]
    /\ scan_pc' = "sell"
    /\ UNCHANGED <<smvars, scan_buy, scan_sell, bucketvars, restvars>>

\* seller_ad = find_first_ad(currency, variant, "SELL", threshold)
ScanSell ==
    /\ scan_pc = "sell"
    /\ scan_out' = [scan_out EXCEPT !.sell =
            Some(FindFirstAd(scan_sell, "SELL", pairs_to_monitor[1].cur,
                             pairs_to_monitor[1].m, pairs_to_monitor[1].thr,
                             ROWS_PER_REQUEST))]
    /\ scan_pc' = "done"
    /\ UNCHANGED <<smvars, scan_buy, scan_sell, bucketvars, restvars>>

ScanNext == Probe \/ ScanBuy \/ ScanSell

SpecScan == ScanInit /\ [][ScanNext]_vars

----------------------------------------------------------------------------
(* Properties of the scanner *)

ScanThreshold == pairs_to_monitor[1].thr

\* the scans that have returned: listing, side and result
ScansDone ==
    {[up |-> scan_buy, side |-> "BUY", out |-> scan_out.buy[1]] :
        x \in {y \in {1} : scan_pc \in {"sell", "done"}}}
    \cup
    {[up |-> scan_sell, side |-> "SELL", out |-> scan_out.sell[1]] :
        x \in {y \in {1} : scan_pc = "done"}}

\* what upstream holds at page pg of a listing, as far as a caller asking
\* for ROWS_PER_REQUEST rows can see it
RowsAt(up, pg) ==
    IF pg \in DOMAIN up /\ up[pg].ok THEN Take(up[pg].data, ROWS_PER_REQUEST) ELSE <<>>

\* first page of 1..MAX_SCAN_PAGES that is empty or failed; MAX_SCAN_PAGES + 1
\* when there is none
FirstEmptyPage(up) ==
    LET E == {pg \in 1..MAX_SCAN_PAGES : RowsAt(up, pg) = <<>>}
    IN  IF E = {} THEN MAX_SCAN_PAGES + 1
        ELSE CHOOSE pg \in E : \A o \in E : pg <= o

\* places <<page, row>> of the adverts on pages before the first empty page
Offered(up) ==
    {p \in (1..MAX_SCAN_PAGES) \X (1..ROWS_PER_REQUEST) :
        p[1] < FirstEmptyPage(up) /\ p[2] <= Len(RowsAt(up, p[1]))}

\* upstream order
Before(p, q) == p[1] < q[1] \/ (p[1] = q[1] /\ p[2] < q[2])

EntryAt(up, p) == RowsAt(up, p[1])[p[2]]

\* the place a result names
PlaceOf(out) == <<out.requested, out.index>>

\* C7: find_first_ad returns the first qualifying advert in upstream order
\* over pages 1..MAX_SCAN_PAGES up to the first empty or failed page, none if
\* there is no such advert; a page without a match does not end the scan,
\* and the last page requested is the page of the match.
C7_FirstQualifyingInOrder ==
    \A s \in ScansDone :
        LET M == {p \in Offered(s.up) : Qualifies(EntryAt(s.up, p), ScanThreshold)}
        IN  IF M = {}
            THEN /\ s.out.ad = None
                 /\ s.out.requested = Min2(FirstEmptyPage(s.up), MAX_SCAN_PAGES)
            ELSE LET p == CHOOSE q \in M : \A o \in M : ~Before(o, q)
                 IN  /\ s.out.ad = Some(FoundAd(EntryAt(s.up, p), s.side,
                                                pairs_to_monitor[1].cur,
                                                pairs_to_monitor[1].m))
                     /\ PlaceOf(s.out) = p

\* a scan that went past a first page without a match and returned an
\* advert of the second page
C7_Witness ==
    /\ scan_pc = "done"
    /\ scan_out.buy[1].ad # None
    /\ scan_out.buy[1].requested = 2
    /\ Len(RowsAt(scan_buy, 1)) = 2
    /\ Len(scan_buy) > 2
    /\ RowsAt(scan_buy, 3) # <<>>

\* values of the maximum-limit threshold of a pair: absent (0) and 400
MaxLimitThresholds == {0, 400}

\* C8 (as stated): an advert is returned only if its minimum limit is at
\* most the minimum-limit threshold and the maximum-limit threshold is 0 or
\* the advert's maximum limit reaches it.
C8_AcceptedIffMinAndMax ==
    \A maxThr \in MaxLimitThresholds :
        \A s \in ScansDone :
            s.out.ad # None =>
                /\ s.out.ad[1].min_limit <= ScanThreshold
                /\ (maxThr = 0 \/ SafeFloat(s.out.ad[1].max_limit) >= maxThr)

\* C8: an advert is accepted exactly when its minimum limit is at most the
\* minimum-limit threshold, and its maximum limit is not compared with
\* anything: the advert returned has such a minimum, every advert passed
\* over has a larger one, and a probe hit has such a minimum on both sides.
C8_AcceptedIffMin ==
    /\ \A s \in ScansDone :
        /\ s.out.ad # None =>
                AdvMinLim(EntryAt(s.up, PlaceOf(s.out))) <= ScanThreshold
        /\ \A pg \in 1..s.out.requested :
                \A i \in 1..Len(RowsAt(s.up, pg)) :
                    (s.out.ad = None \/ Before(<<pg, i>>, PlaceOf(s.out))) =>
                        AdvMinLim(EntryAt(s.up, <<pg, i>>)) > ScanThreshold
    /\ (scan_out.probe # None /\ scan_out.probe[1].buyer_ad # None) =>
            /\ AdvMinLim(RowsAt(scan_buy, 1)[1]) <= ScanThreshold
            /\ AdvMinLim(RowsAt(scan_sell, 1)[1]) <= ScanThreshold

\* an advert whose maximum limit (20) is below 400 is returned from the
\* second page after adverts with a larger minimum were passed over
C8_Witness ==
    /\ scan_pc = "done"
    /\ scan_out.buy[1].ad # None
    /\ scan_out.buy[1].ad[1].max_limit = Some(20)
    /\ scan_out.buy[1].requested = 2
    /\ scan_out.sell[1].ad # None
    /\ scan_out.probe[1].buyer_ad = None

\* C9: no advert is rejected because of its maximum limit: an offered advert
\* whose minimum limit is at most the threshold, whatever its maximum (0 and
\* absent included), is returned unless an earlier advert was.
C9_NoRejectionOnMax ==
    \A s \in ScansDone :
        \A p \in Offered(s.up) :
            AdvMinLim(EntryAt(s.up, p)) <= ScanThreshold =>
                /\ s.out.ad # None
                /\ ~Before(PlaceOf(s.out), p) => PlaceOf(s.out) = p

\* an advert without a maximum limit is returned
C9_Witness ==
    /\ scan_pc = "done"
    /\ scan_out.buy[1].ad # None
    /\ scan_out.buy[1].ad[1].max_limit = Some(0)
    /\ AdvMaxLim(EntryAt(scan_buy, PlaceOf(scan_out.buy[1]))) = 0
    /\ EntryAt(scan_buy, PlaceOf(scan_out.buy[1])).adv.maxSingleTransAmount = None


----------------------------------------------------------------------------
(* The rate limiter: concurrent callers of acquire_token_blocking *)

Callers == 1..NumCallers

\* seconds by which the clock moves in one step
ClockSteps == {10, 30}

\* Faulty variant: the refill is not capped.
RefilledUncapped(bucket, rpm, t) ==
    IF t - bucket.last_refill > 0
    THEN [tokens |-> bucket.tokens + (t - bucket.last_refill) * rpm, last_refill |-> t]
    ELSE bucket

\* Faulty variant: a refill fills the bucket, however little time has passed.
RefilledFull(bucket, rpm, t) ==
    IF t - bucket.last_refill > 0
    THEN [tokens |-> TokenScale * rpm, last_refill |-> t]
    ELSE bucket

\* if elapsed > 0: tokens = min(float(RPM), tokens + refill); last_refill = now
Refilled(bucket, rpm, t) ==
    IF t - bucket.last_refill > 0
    THEN [tokens |-> Min2(TokenScale * rpm,
                          bucket.tokens + (t - bucket.last_refill) * rpm),
          last_refill |-> t]
    ELSE bucket

\* token_lock can be taken
LockFree(lock) == lock = None

\* The refill time stamp at which the bucket was found empty, kept until
\* the next permit: set when the count becomes 0, dropped by a permit that
\* leaves tokens in the bucket.
EmptySince(es, old, new) ==
    IF new.tokens = 0
    THEN IF old.tokens = 0 /\ es # None THEN es ELSE Some(new.last_refill)
    ELSE IF new.tokens < old.tokens THEN None
    ELSE es

\* time.sleep(to_sleep) that began at `since` is over at t:
\* to_sleep = 60.0 / max(1, REQUESTS_PER_MINUTE)
SleepOver(since, t, rpm) == (t - since) * Max2(1, rpm) >= TokenScale

\* the rate limiter with every caller at place pc
BucketStart(pc) ==
    /\ cfg = [ALERT_TTL_SECONDS |-> 0,
              ALERT_DEDUP_MODE |-> "exact",
              ALERT_UPDATE_ON_ANY_CHANGE |-> "1",
              ALERT_UPDATE_MIN_DELTA_PERCENT |-> ALERT_UPDATE_MIN_DELTA_PERCENT]
    /\ SMInit
    /\ ScanIdle
    /\ RestIdle
    /\ REQUESTS_PER_MINUTE \in 0..MaxRPM
    /\ token_bucket = InitialBucket(REQUESTS_PER_MINUTE, now)
    /\ token_lock = None
    /\ callers = [c \in Callers |-> [pc |-> pc, slept |-> 0]]
    /\ empty_since = None

BucketInit == BucketStart("idle")

\* time passes
BucketTick ==
    /\ now < MaxBucketTime
    /\ \E d \in ClockSteps : now' = now + d
    /\ UNCHANGED <<cfg, profit_thresholds_map, pairs_to_monitor, active_states,
                   pair_locks, did_startup_cleanup, sends, evals, hist, scenario, skips>>
    /\ UNCHANGED <<scanvars, bucketvars, restvars>>

\* fetch_page_raw calls acquire_token_blocking()
Call(c) ==
    /\ callers[c].pc = "idle"
    /\ callers' = [callers EXCEPT ![c].pc = "lock"]
    /\ UNCHANGED <<smvars, scanvars, restvars, REQUESTS_PER_MINUTE, token_bucket,
                   token_lock, empty_since>>

\* with token_lock:
Enter(c) ==
    /\ callers[c].pc = "lock"
    /\ LockFree(token_lock)
    /\ token_lock' = Some(c)
    /\ callers' = [callers EXCEPT ![c].pc = "refill"]
    /\ UNCHANGED <<smvars, scanvars, restvars, REQUESTS_PER_MINUTE, token_bucket,
                   empty_since>>

\* now = time.time(); elapsed = ...; if elapsed > 0: ...
Refill(c) ==
    /\ callers[c].pc = "refill"
    /\ token_bucket' = Refilled(token_bucket, REQUESTS_PER_MINUTE, now)
    /\ callers' = [callers EXCEPT ![c].pc = "check"]
    /\ empty_since' = EmptySince(empty_since, token_bucket, token_bucket')
    /\ UNCHANGED <<smvars, scanvars, restvars, REQUESTS_PER_MINUTE, token_lock>>

\* if token_bucket["tokens"] >= 1.0: ... else: leave the lock and sleep
Check(c) ==
    /\ callers[c].pc = "check"
    /\ IF token_bucket.tokens >= TokenScale
       THEN /\ callers' = [callers EXCEPT ![c].pc = "consume"]
            /\ UNCHANGED token_lock
       ELSE /\ callers' = [callers EXCEPT ![c] = [pc |-> "sleep", slept |-> now]]
            /\ token_lock' = None
    /\ UNCHANGED <<smvars, scanvars, restvars, REQUESTS_PER_MINUTE, token_bucket,
                   empty_since>>

\* token_bucket["tokens"] -= 1.0; return True
Consume(c) ==
    /\ callers[c].pc = "consume"
    /\ token_bucket' = [token_bucket EXCEPT !.tokens = @ - TokenScale]
    /\ token_lock' = None
    /\ callers' = [callers EXCEPT ![c].pc = "idle"]
    /\ empty_since' = EmptySince(empty_since, token_bucket, token_bucket')
    /\ UNCHANGED <<smvars, scanvars, restvars, REQUESTS_PER_MINUTE>>

\* time.sleep(to_sleep) returns; the loop starts over
Wake(c) ==
    /\ callers[c].pc = "sleep"
    /\ SleepOver(callers[c].slept, now, REQUESTS_PER_MINUTE)
    /\ callers' = [callers EXCEPT ![c] = [pc |-> "lock", slept |-> 0]]
    /\ UNCHANGED <<smvars, scanvars, restvars, REQUESTS_PER_MINUTE, token_bucket,
                   token_lock, empty_since>>

BucketNext ==
    \/ BucketTick
    \/ \E c \in Callers : Call(c)
    \/ \E c \in Callers : Enter(c)
    \/ \E c \in Callers : Refill(c)
    \/ \E c \in Callers : Check(c)
    \/ \E c \in Callers : Consume(c)
    \/ \E c \in Callers : Wake(c)

SpecBucket == BucketInit /\ [][BucketNext]_vars

\* Time passes without end: the clock reading stays and every time stamp
\* kept moves back by the time passed, no further than a minute, beyond
\* which neither the refill nor a sleep tells ages apart.
BucketPass ==
    /\ \E d \in ClockSteps :
        LET aged(t) == Max2(t - d, now - TokenScale)
        IN  /\ token_bucket' = [token_bucket EXCEPT !.last_refill = aged(@)]
            /\ callers' = [c \in Callers |->
                              IF callers[c].pc = "sleep"
                              THEN [callers[c] EXCEPT !.slept = aged(@)]
                              ELSE callers[c]]
            /\ empty_since' = IF empty_since = None THEN None
                              ELSE Some(aged(empty_since[1]))
    /\ UNCHANGED <<smvars, scanvars, restvars, REQUESTS_PER_MINUTE, token_lock>>

\* the steps of caller c inside acquire_token_blocking
CallerStep(c) == Enter(c) \/ Refill(c) \/ Check(c) \/ Consume(c) \/ Wake(c)

WaitersNext == BucketPass \/ \E c \in Callers : CallerStep(c)

\* Every caller has called acquire_token_blocking once, all at the same
\* time.  Time advances, every caller gets to run, and a caller that finds
\* token_lock free again and again gets it.
SpecBucketFair ==
    /\ BucketStart("lock")
    /\ [][WaitersNext]_vars
    /\ WF_vars(BucketPass)
    /\ \A c \in Callers : WF_vars(CallerStep(c)) /\ SF_vars(Enter(c))

----------------------------------------------------------------------------
(* Properties of the rate limiter *)

TokensInRange(bucket) ==
    0 <= bucket.tokens /\ bucket.tokens <= TokenScale * REQUESTS_PER_MINUTE

\* C10 (as stated): under every interleaving of the callers the token count
\* stays within 0 and the capacity REQUESTS_PER_MINUTE, and whenever the
\* count goes down it goes down by exactly one token that was available.
C10_TokensWithinCapacity ==
    [][/\ TokensInRange(token_bucket)
       /\ TokensInRange(token_bucket')
       /\ token_bucket'.tokens < token_bucket.tokens =>
            /\ token_bucket.tokens >= TokenScale
            /\ token_bucket'.tokens = token_bucket.tokens - TokenScale]_vars

\* C10 for a positive REQUESTS_PER_MINUTE only, where the initial count
\* max(1, REQUESTS_PER_MINUTE) is the capacity
C10_TokensWithinCapacityPositiveRate ==
    [][REQUESTS_PER_MINUTE >= 1 =>
        /\ TokensInRange(token_bucket)
        /\ TokensInRange(token_bucket')
        /\ token_bucket'.tokens < token_bucket.tokens =>
            /\ token_bucket.tokens >= TokenScale
            /\ token_bucket'.tokens = token_bucket.tokens - TokenScale]_vars

\* a caller that found the bucket empty sleeps while another caller, after
\* a refill, is about to consume the last token
C10_Witness ==
    /\ token_bucket.last_refill > 0
    /\ token_bucket.tokens = TokenScale
    /\ \E c, d \in Callers :
        /\ c # d
        /\ callers[c].pc = "consume"
        /\ callers[d].pc = "sleep"


\* C11: once the bucket is empty as of a refill time stamp, no permit is
\* granted to any caller before 60 / REQUESTS_PER_MINUTE seconds have passed
\* since that time stamp, however many callers poll the bucket in between.
C11_NoPermitBeforeRefillInterval ==
    [][(token_bucket'.tokens < token_bucket.tokens /\ empty_since # None) =>
            (now - empty_since[1]) * REQUESTS_PER_MINUTE >= TokenScale]_vars

\* a permit is being granted from a bucket that was emptied at time 0 and
\* that another caller, now asleep, polled while it was refilling
C11_Witness ==
    /\ empty_since = Some(0)
    /\ token_bucket.tokens >= TokenScale
    /\ token_bucket.last_refill > 0
    /\ \E c, d \in Callers :
        /\ c # d
        /\ callers[c].pc = "consume"
        /\ callers[d].pc = "sleep"
        /\ callers[d].slept > 0
        /\ callers[d].slept < token_bucket.last_refill

\* caller c returns from acquire_token_blocking in this step
Returns(c) == callers[c].pc # "idle" /\ callers'[c].pc = "idle"

\* C18 (as stated): for every REQUESTS_PER_MINUTE and however many callers
\* wait at once, every call of acquire_token_blocking returns in the end,
\* and the step in which it returns takes exactly one token from the bucket.
C18_EveryCallReturns ==
    /\ \A c \in Callers : <>(callers[c].pc = "idle")
    /\ [][\A c \in Callers :
            Returns(c) => token_bucket'.tokens = token_bucket.tokens - TokenScale]_vars

\* C18 for a positive REQUESTS_PER_MINUTE only
C18_EveryCallReturnsPositiveRate ==
    /\ \A c \in Callers : <>(REQUESTS_PER_MINUTE >= 1 => callers[c].pc = "idle")
    /\ [][\A c \in Callers :
            Returns(c) => token_bucket'.tokens = token_bucket.tokens - TokenScale]_vars

\* every caller has returned, the last of them after the bucket had been
\* found empty and had refilled
C18_Witness ==
    /\ \A c \in Callers : callers[c].pc = "idle"
    /\ token_bucket.last_refill < 0
    /\ REQUESTS_PER_MINUTE = 1

----------------------------------------------------------------------------
(* fetch_page_raw and rate_limit_wait, called by concurrent worker threads. *)
(* Durations count quarter seconds, the finest step of the durations        *)
(* involved (JITTER_FACTOR * 1 s).  Time stamps are kept relative to the    *)
(* present: `now` stays 0, and when time passes by d every stored time      *)
(* stamp moves back by d, no further than Epoch.  The clock is that of      *)
(* rate_limit_wait: a thread may arrive there any time after the last       *)
(* grant, whatever it slept before, and the lengths of the sleeps of        *)
(* fetch_page_raw are kept in `slept`.  A call of acquire_token_blocking    *)
(* returns within the step that makes it: the token bucket has its own      *)
(* specification above.                                                     *)

\* env MAX_FETCH_RETRIES_ON_429 (default 5)
MAX_FETCH_RETRIES_ON_429 == 2

INITIAL_BACKOFF_SECONDS == 1

\* env MAX_BACKOFF_SECONDS (default 60), kept small so that the cap is met
\* within the attempts of one call
MAX_BACKOFF_SECONDS == 3

MAX_CONSECUTIVE_429_BEFORE_COOLDOWN == 8

EXTENDED_COOLDOWN_SECONDS == 300

\* values of the consecutive-429 counter left behind by earlier calls: none,
\* just below the first growth of the multiplier, just below the cooldown
StartCounts == {0, 2, MAX_CONSECUTIVE_429_BEFORE_COOLDOWN - 1}

\* the threads calling fetch_page_raw
Fetchers == {"w1", "w2"}

RECURSIVE Pow2(_)
Pow2(n) == IF n <= 0 THEN 1 ELSE 2 * Pow2(n - 1)

\* MIN_INTERVAL_BASE = max(0.0, 60.0 / max(1, REQUESTS_PER_MINUTE))
MIN_INTERVAL_BASE == Max2(0, Seconds(60) \div Max2(1, REQUESTS_PER_MINUTE))

\* faulty variant: the multiplier grows from the first 429 on
MultiplierEager(c429) == IF c429 <= 0 THEN 1 ELSE Min2(64, Pow2(c429))

\* rate_limit_wait: multiplier grows with repeated 429s, capped
Multiplier(c429) ==
    IF c429 <= 2 THEN 1 ELSE Min2(64, Pow2(c429 - 2))

\* faulty variant: the interval does not grow with the counter
EffectiveMinIntervalFlat(c429) == MIN_INTERVAL_BASE

\* effective_min_interval = MIN_INTERVAL_BASE * multiplier
EffectiveMinInterval(c429) == MIN_INTERVAL_BASE * Multiplier(c429)

\* random.uniform(0, min(0.25 * effective_min_interval, 0.5)): both ends
RateJitters(eff) == {0, Min2(eff \div 4, ClockRate \div 2)}

\* min(MAX_BACKOFF_SECONDS, INITIAL_BACKOFF_SECONDS * (2 ** (attempt - 1)))
Backoff(attempt) ==
    Min2(Seconds(MAX_BACKOFF_SECONDS),
         Seconds(INITIAL_BACKOFF_SECONDS) * Pow2(attempt - 1))

\* random.uniform(0, JITTER_FACTOR * backoff): both ends
BackoffJitters(backoff) == {0, backoff \div 4}

\* the Retry-After header of a 429 response: absent, or a number of seconds
RetryAfters == {None, Some(Seconds(2)), Some(Seconds(400))}

\* random.uniform(0, 1.0), added to a Retry-After delay: both ends
RetryAfterJitters == {0, Seconds(1)}

\* wait = backoff + jitter; if ra and ra > wait: wait = ra + uniform(0, 1.0)
WaitAfter429(backoff, jitter, ra, extra) ==
    LET wait == backoff + jitter
    IN  IF ra # None /\ ra[1] # 0 /\ ra[1] > wait THEN ra[1] + extra ELSE wait

\* if c429_local >= MAX_CONSECUTIVE_429_BEFORE_COOLDOWN
SleepsCooldown(c429_local) == c429_local >= MAX_CONSECUTIVE_429_BEFORE_COOLDOWN

\* the sleep after a 429: the extended cooldown or the wait
SleepAfter429(c429_local, wait) ==
    IF SleepsCooldown(c429_local)
    THEN Seconds(EXTENDED_COOLDOWN_SECONDS)
    ELSE wait

\* `attempt < MAX_FETCH_RETRIES_ON_429` fails, and `range` is exhausted
LastAttempt(attempt) == attempt >= MAX_FETCH_RETRIES_ON_429

NoResponse == [kind |-> "none", ra |-> None]

\* a thread that is not in fetch_page_raw
FetcherIdle ==
    [pc |-> "idle", attempt |-> 0, requests |-> 0, c429 |-> 0, eff |-> 0,
     jitter |-> 0, wake |-> 0, slept |-> 0,
     last |-> NoResponse, result |-> None]

\* the upstream's answers to one session.post
Responses ==
    {[kind |-> k, ra |-> None] : k \in {"ok", "badjson", "httperror", "neterror"}}
        \cup {[kind |-> "429", ra |-> ra] : ra \in RetryAfters}

\* the `data` of a response that parses: missing or empty, or some rows
Payloads == {<<>>, <<"row">>}

FetchInit ==
    /\ cfg = [ALERT_TTL_SECONDS |-> 0,
              ALERT_DEDUP_MODE |-> "exact",
              ALERT_UPDATE_ON_ANY_CHANGE |-> "1",
              ALERT_UPDATE_MIN_DELTA_PERCENT |-> ALERT_UPDATE_MIN_DELTA_PERCENT]
    /\ SMInit
    /\ ScanIdle
    /\ ThrIdle
    /\ WorkIdle
    /\ LoopIdle
    /\ SideIdle
    /\ REQUESTS_PER_MINUTE \in 1..MaxRPM
    /\ token_bucket = InitialBucket(REQUESTS_PER_MINUTE, now)
    /\ token_lock = None
    /\ callers = <<>>
    /\ empty_since = None
    /\ consecutive_429_count \in StartCounts
    /\ last_request_ts = Epoch
    /\ last_request_lock = None
    /\ cooldowns = 0
    /\ fetchers = [f \in Fetchers |-> FetcherIdle]

FetchFrame ==
    UNCHANGED <<cfg, profit_thresholds_map, pairs_to_monitor, active_states,
                pair_locks, did_startup_cleanup, sends, evals, hist, scenario,
                skips, scanvars, bucketvars, thrvars, workvars, loopvars,
                sidevars>>

\* time passes: up to the moment at which the sleep of rate_limit_wait ends,
\* or for longer than any interval waited for
FetchTick ==
    LET wakes == {fetchers[f].wake :
                    f \in {g \in Fetchers : fetchers[g].pc = "rate_sleep"
                                            /\ fetchers[g].wake > now}}
    IN  /\ \E d \in {now - Epoch} \cup {t - now : t \in wakes} :
               /\ last_request_ts' = Max2(Epoch, last_request_ts - d)
               /\ fetchers' = [f \in Fetchers |->
                                [fetchers[f] EXCEPT !.wake = Max2(0, @ - d)]]
        /\ <<last_request_ts', fetchers'>> # <<last_request_ts, fetchers>>
        /\ UNCHANGED <<now, consecutive_429_count, last_request_lock, cooldowns>>
        /\ FetchFrame

\* fetch_page_raw(fiat, pay_type, trade_type, page, rows): attempt = 1, and
\* acquire_token_blocking() returns
FetchCall(f) ==
    /\ fetchers[f].pc = "idle"
    /\ fetchers' = [fetchers EXCEPT ![f].pc = "rate", ![f].attempt = 1]
    /\ UNCHANGED <<now, consecutive_429_count, last_request_ts, last_request_lock,
                    cooldowns>>
    /\ FetchFrame

\* rate_limit_wait: c429 = consecutive_429_count; multiplier; jitter
RateRead(f) ==
    /\ fetchers[f].pc = "rate"
    /\ LET c429 == consecutive_429_count
           effective_min_interval == EffectiveMinInterval(c429)
       IN  \E jitter \in RateJitters(effective_min_interval) :
               fetchers' = [fetchers EXCEPT ![f].pc = "rate_lock",
                                            ![f].c429 = c429,
                                            ![f].eff = effective_min_interval,
                                            ![f].jitter = jitter]
    /\ UNCHANGED <<now, consecutive_429_count, last_request_ts, last_request_lock,
                    cooldowns>>
    /\ FetchFrame

\* rate_limit_wait returns
Granted(rec) == [rec EXCEPT !.pc = "post", !.c429 = 0, !.eff = 0, !.jitter = 0, !.wake = 0]

\* with last_request_lock: sleep while holding the lock if the last grant is
\* too recent, otherwise last_request_ts[0] = time.time()
RateEnter(f) ==
    /\ fetchers[f].pc = "rate_lock"
    /\ last_request_lock = None
    /\ LET elapsed == now - last_request_ts
           due == fetchers[f].eff + fetchers[f].jitter
       IN  IF elapsed < due
           THEN /\ last_request_lock' = Some(f)
                /\ fetchers' = [fetchers EXCEPT ![f].pc = "rate_sleep",
                                                ![f].wake = now + (due - elapsed)]
                /\ UNCHANGED last_request_ts
           ELSE /\ last_request_ts' = now
                /\ fetchers' = [fetchers EXCEPT ![f] = Granted(@)]
                /\ UNCHANGED last_request_lock
    /\ UNCHANGED <<now, consecutive_429_count, cooldowns>>
    /\ FetchFrame

\* time.sleep(to_sleep) is over: last_request_ts[0] = time.time()
RateWake(f) ==
    /\ fetchers[f].pc = "rate_sleep"
    /\ now >= fetchers[f].wake
    /\ last_request_ts' = now
    /\ last_request_lock' = None
    /\ fetchers' = [fetchers EXCEPT ![f] = Granted(@)]
    /\ UNCHANGED <<now, consecutive_429_count, cooldowns>>
    /\ FetchFrame

\* the response is in: the call returns data, sleeps for d before the next
\* attempt, or lets the exception through
Answered(rec, resp, pc, d, data) ==
    [rec EXCEPT !.requests = @ + 1, !.last = resp, !.pc = pc, !.slept = d,
                !.result = IF pc = "done" THEN Some(data) ELSE None]

\* r = session.post(...) answered with status 429
On429(f, resp) ==
    /\ resp.kind = "429"
    /\ consecutive_429_count' = consecutive_429_count + 1
    /\ cooldowns' = IF SleepsCooldown(consecutive_429_count + 1)
                    THEN cooldowns + 1
                    ELSE cooldowns
    /\ LET c429_local == consecutive_429_count + 1
           backoff == Backoff(fetchers[f].attempt)
       IN  \E jitter \in BackoffJitters(backoff), extra \in RetryAfterJitters :
               LET wait == WaitAfter429(backoff, jitter, resp.ra, extra)
               IN  fetchers' = [fetchers EXCEPT ![f] =
                       Answered(@, resp, "backoff", SleepAfter429(c429_local, wait), <<>>)]

\* a response that passes raise_for_status: the counter is reset, the data
\* returned, or [] when the body does not parse
OnSuccess(f, resp) ==
    /\ resp.kind \in {"ok", "badjson"}
    /\ consecutive_429_count' = 0
    /\ cooldowns' = 0
    /\ \E data \in IF resp.kind = "ok" THEN Payloads ELSE {<<>>} :
           fetchers' = [fetchers EXCEPT ![f] = Answered(@, resp, "done", 0, data)]

\* faulty variant: the error raised by raise_for_status is not caught
CaughtNetworkOnly(kind) == kind = "neterror"

\* except requests.RequestException: the network errors of session.post and
\* the HTTPError of raise_for_status
Caught(kind) == kind \in {"httperror", "neterror"}

\* an exception raised by session.post or by raise_for_status
OnRequestException(f, resp) ==
    /\ resp.kind \in {"httperror", "neterror"}
    /\ UNCHANGED <<consecutive_429_count, cooldowns>>
    /\ IF ~Caught(resp.kind)
       THEN fetchers' = [fetchers EXCEPT ![f] = Answered(@, resp, "raised", 0, <<>>)]
       ELSE IF LastAttempt(fetchers[f].attempt)
       THEN fetchers' = [fetchers EXCEPT ![f] = Answered(@, resp, "done", 0, <<>>)]
       ELSE LET backoff == Backoff(fetchers[f].attempt)
            IN  \E jitter \in BackoffJitters(backoff) :
                    fetchers' = [fetchers EXCEPT ![f] =
                        Answered(@, resp, "backoff", backoff + jitter, <<>>)]

\* one outbound request and the handling of its outcome
Post(f) ==
    /\ fetchers[f].pc = "post"
    /\ \E resp \in Responses :
        \/ On429(f, resp)
        \/ OnSuccess(f, resp)
        \/ OnRequestException(f, resp)
    /\ UNCHANGED <<now, last_request_ts, last_request_lock>>
    /\ FetchFrame

\* the sleep after a failed attempt is over: `return []` when the attempts
\* are used up, otherwise the next attempt, and acquire_token_blocking()
\* returns
BackoffWake(f) ==
    /\ fetchers[f].pc = "backoff"
    /\ fetchers' = [fetchers EXCEPT ![f] =
           IF LastAttempt(@.attempt)
           THEN [@ EXCEPT !.pc = "done", !.slept = 0, !.result = Some(<<>>)]
           ELSE [@ EXCEPT !.pc = "rate", !.attempt = @ + 1, !.slept = 0,
                          !.last = NoResponse]]
    /\ UNCHANGED <<now, consecutive_429_count, last_request_ts, last_request_lock,
                    cooldowns>>
    /\ FetchFrame

FetcherStep(f) ==
    \/ FetchCall(f)
    \/ RateRead(f)
    \/ RateEnter(f)
    \/ RateWake(f)
    \/ Post(f)
    \/ BackoffWake(f)

FetchNext ==
    \/ FetchTick
    \/ \E f \in Fetchers : FetcherStep(f)

SpecFetch == FetchInit /\ [][FetchNext]_vars

\* the clock advances and the threads get to run
SpecFetchFair == SpecFetch /\ WF_vars(FetchNext)

----------------------------------------------------------------------------
(* Properties of fetch_page_raw and rate_limit_wait *)

\* fetcher f has just read the counter in rate_limit_wait
ReadsCounter(f) == fetchers[f].pc = "rate" /\ fetchers'[f].pc = "rate_lock"

\* fetcher f has just received a response with a status that is neither 429
\* nor an error
Succeeds(f) ==
    /\ fetchers[f].pc = "post"
    /\ fetchers'[f].pc = "done"
    /\ fetchers'[f].last.kind \in {"ok", "badjson"}

\* C12 (as stated): whenever rate_limit_wait reads a consecutive-429 counter
\* of 1 or more, the effective minimum interval it uses is strictly greater
\* than the base interval; a response that is neither throttled nor an error
\* leaves the counter at 0, for which the interval is the base interval.
C12_IntervalAboveBaseAfterAny429 ==
    [][\A f \in Fetchers :
        /\ (ReadsCounter(f) /\ fetchers'[f].c429 >= 1) =>
                fetchers'[f].eff > MIN_INTERVAL_BASE
        /\ (ReadsCounter(f) /\ fetchers'[f].c429 = 0) =>
                fetchers'[f].eff = MIN_INTERVAL_BASE
        /\ Succeeds(f) => consecutive_429_count' = 0]_vars

\* C12 (amended): the effective minimum interval used by rate_limit_wait is
\* the base interval while the counter it reads is at most 2, and the base
\* interval times min(64, 2^(counter - 2)), which is strictly greater, from a
\* counter of 3 on; a response that is neither throttled nor an error leaves
\* the counter at 0.
C12_IntervalAboveBaseFromThird429 ==
    [][\A f \in Fetchers :
        /\ (ReadsCounter(f) /\ fetchers'[f].c429 >= 3) =>
                /\ fetchers'[f].eff > MIN_INTERVAL_BASE
                /\ fetchers'[f].eff =
                       MIN_INTERVAL_BASE * Min2(64, Pow2(fetchers'[f].c429 - 2))
        /\ (ReadsCounter(f) /\ fetchers'[f].c429 <= 2) =>
                fetchers'[f].eff = MIN_INTERVAL_BASE
        /\ ReadsCounter(f) => fetchers'[f].c429 = consecutive_429_count
        /\ Succeeds(f) => consecutive_429_count' = 0]_vars

\* one fetcher sleeps in rate_limit_wait with an interval above the base
\* interval, read from a counter of 3 or more, while the successful second
\* request of the other fetcher has reset the counter
C12_Witness ==
    \E f, g \in Fetchers :
        /\ f # g
        /\ fetchers[f].pc = "rate_sleep"
        /\ fetchers[f].c429 >= 3
        /\ fetchers[f].eff > MIN_INTERVAL_BASE
        /\ fetchers[g].pc = "done"
        /\ fetchers[g].last.kind = "ok"
        /\ fetchers[g].requests = 2
        /\ consecutive_429_count = 0

SleepsAfter429(f) ==
    fetchers[f].pc = "backoff" /\ fetchers[f].last.kind = "429"

\* the sleep of fetcher f covers the exponential backoff of its attempt and
\* the Retry-After delay of the response, if it has one
CoversBackoffAndRetryAfter(f) ==
    /\ fetchers[f].slept >= Backoff(fetchers[f].attempt)
    /\ fetchers[f].last.ra # None => fetchers[f].slept >= fetchers[f].last.ra[1]

\* C28 (as stated): after every 429 response fetch_page_raw sleeps for at
\* least min(MAX_BACKOFF_SECONDS, INITIAL_BACKOFF_SECONDS * 2^(attempt-1)),
\* and for at least the Retry-After delay of the response when one is given
\* and is larger, whatever the value of the consecutive-429 counter.
C28_SleepCoversBackoffAndRetryAfter ==
    \A f \in Fetchers : SleepsAfter429(f) => CoversBackoffAndRetryAfter(f)

\* C28, below the cooldown: the same lower bounds hold for every 429 response
\* that leaves the counter below MAX_CONSECUTIVE_429_BEFORE_COOLDOWN, and the
\* exponential backoff is covered for every value of the counter.
C28_SleepCoversBelowCooldown ==
    \A f \in Fetchers :
        SleepsAfter429(f) =>
            /\ fetchers[f].slept >= Backoff(fetchers[f].attempt)
            /\ fetchers[f].slept # Seconds(EXTENDED_COOLDOWN_SECONDS) =>
                   CoversBackoffAndRetryAfter(f)

\* a 429 response has just sent a fetcher into the extended cooldown sleep
EntersCooldown == cooldowns' = cooldowns + 1

\* C29 (as stated): the extended cooldown sleep is entered only when the
\* consecutive-429 counter exceeds MAX_CONSECUTIVE_429_BEFORE_COOLDOWN, and
\* once per throttling episode: after a cooldown, the further 429 responses
\* of the episode are handled by the exponential backoff.
C29_SingleCooldownAboveCeiling ==
    [][EntersCooldown =>
        /\ consecutive_429_count' > MAX_CONSECUTIVE_429_BEFORE_COOLDOWN
        /\ cooldowns = 0]_vars

\* C29, as the code has it: a 429 response is followed by the extended
\* cooldown sleep exactly when it brings the counter to
\* MAX_CONSECUTIVE_429_BEFORE_COOLDOWN or above, so every 429 of an episode
\* from that one on sleeps the cooldown; the count of cooldowns of the
\* episode is the excess of the counter over the ceiling less one.
C29_CooldownOnEvery429FromCeiling ==
    /\ [][\A f \in Fetchers :
            (fetchers[f].pc = "post" /\ fetchers'[f].last.kind = "429") =>
                /\ EntersCooldown <=>
                       consecutive_429_count' >= MAX_CONSECUTIVE_429_BEFORE_COOLDOWN
                /\ EntersCooldown <=>
                       fetchers'[f].slept = Seconds(EXTENDED_COOLDOWN_SECONDS)]_vars
    /\ [](cooldowns =
            Max2(0, consecutive_429_count - (MAX_CONSECUTIVE_429_BEFORE_COOLDOWN - 1)))

\* rate_limit_wait of fetcher f has just returned: a grant
Grants(f) ==
    fetchers[f].pc \in {"rate_lock", "rate_sleep"} /\ fetchers'[f].pc = "post"

\* C30: whichever threads call rate_limit_wait, a grant sets last_request_ts
\* to a time that is at least the base interval 60 / REQUESTS_PER_MINUTE
\* after the grant before it, and at least base * min(64, 2^(c-2)) after it
\* when the counter c read by the caller is greater than 2; the interval is
\* never more than 64 times the base interval.
C30_GrantsSpacedByInterval ==
    [][\A f \in Fetchers :
        Grants(f) =>
            LET gap == now - last_request_ts
                c == fetchers[f].c429
            IN  /\ last_request_ts' = now
                /\ gap >= MIN_INTERVAL_BASE
                /\ c > 2 => gap >= MIN_INTERVAL_BASE * Min2(64, Pow2(c - 2))
                /\ fetchers[f].eff <= 64 * MIN_INTERVAL_BASE]_vars

\* a fetcher that read a counter at or above the cooldown ceiling has slept
\* under last_request_lock until 64 base intervals and its jitter have passed
\* since the grant before, while the other fetcher waits for the lock
C30_Witness ==
    \E f, g \in Fetchers :
        /\ fetchers[f].pc = "rate_sleep"
        /\ fetchers[f].c429 >= MAX_CONSECUTIVE_429_BEFORE_COOLDOWN
        /\ fetchers[f].eff = 64 * MIN_INTERVAL_BASE
        /\ fetchers[f].jitter > 0
        /\ fetchers[f].wake <= now
        /\ last_request_ts > Epoch
        /\ now - last_request_ts = fetchers[f].eff + fetchers[f].jitter
        /\ last_request_lock = Some(f)
        /\ fetchers[g].pc = "rate_lock"

----------------------------------------------------------------------------
(* Resolution of the profit threshold of a pair from the PROFIT_THRESHOLDS  *)
(* setting                                                                   *)

\* number of entries of the setting
MaxThrEntries == 2

\* entries "USD:Skrill=v", "USD=v", "USD:ALL=v", "GBP=v", and entries that give
\* the method without a currency: "Skrill=v", "ALL:Skrill=v", ":Skrill=v"
ThrEntries ==
    {[lhs |-> l, val |-> v] :
        l \in {<<"USD", "Skrill">>, <<"USD">>, <<"USD", "ALL">>, <<"GBP">>,
               <<"Skrill">>, <<"ALL", "Skrill">>, <<"", "Skrill">>},
        v \in {None, Some(TicksPerUnit), Some(2 * TicksPerUnit)}}

ThrInit ==
    /\ cfg = [ALERT_TTL_SECONDS |-> 0,
              ALERT_DEDUP_MODE |-> "exact",
              ALERT_UPDATE_ON_ANY_CHANGE |-> "1",
              ALERT_UPDATE_MIN_DELTA_PERCENT |-> ALERT_UPDATE_MIN_DELTA_PERCENT]
    /\ SMInit
    /\ ScanIdle
    /\ BucketIdle
    /\ FetchIdle
    /\ WorkIdle
    /\ LoopIdle
    /\ SideIdle
    /\ thr_env \in UNION {[1..n -> ThrEntries] : n \in 0..MaxThrEntries}
    /\ thr_pair \in {"USD", "GBP", ""} \X {"Skrill", "NETELLER"}
    /\ thr_out = None

\* profit_thresholds_map = parse_profit_thresholds(PROFIT_THRESHOLDS_ENV);
\* get_profit_threshold_for_pair(currency, variant, profit_thresholds_map)
ResolveThreshold ==
    /\ thr_out = None
    /\ thr_out' = Some(GetProfitThresholdForPair(thr_pair[1], thr_pair[2],
                                                 ParseProfitThresholds(thr_env)))
    /\ UNCHANGED <<thr_env, thr_pair>>
    /\ UNCHANGED <<smvars, scanvars, bucketvars, fetchvars, workvars, loopvars,
                 sidevars>>

SpecThr == ThrInit /\ [][ResolveThreshold]_vars

----------------------------------------------------------------------------
(* Properties of the threshold resolution *)

\* the value of the last valid entry of the setting whose left-hand side is
\* one of lhss, if there is one
LastOf(lhss) ==
    LET is == {i \in DOMAIN thr_env : thr_env[i].lhs \in lhss /\ thr_env[i].val # None}
    IN  IF is = {} THEN None
        ELSE thr_env[CHOOSE i \in is : \A j \in is : j <= i].val

ExactEntry == LastOf({<<thr_pair[1], thr_pair[2]>>})

CurrencyEntry == LastOf({<<thr_pair[1]>>, <<thr_pair[1], "ALL">>})

MethodEntry == LastOf({<<thr_pair[2]>>, <<"ALL", thr_pair[2]>>, <<"", thr_pair[2]>>})

\* C13 (as stated): the threshold of a pair is that of the exact
\* (currency, method) entry, else that of the currency-only entry, else that
\* of the method-only entry, else the global default.
C13_ExactCurrencyMethodDefault ==
    (thr_out # None /\ thr_pair[1] # "") =>
        thr_out = IF ExactEntry # None THEN ExactEntry
                  ELSE IF CurrencyEntry # None THEN CurrencyEntry
                  ELSE IF MethodEntry # None THEN MethodEntry
                  ELSE Some(PROFIT_THRESHOLD_PERCENT)

\* C13 (amended): the threshold of a pair is that of the exact
\* (currency, method) entry, else that of the currency-only entry, else the
\* global default; an entry that gives the method without the currency is
\* never used for the pair.
C13_ExactCurrencyDefault ==
    thr_out # None =>
        thr_out = IF thr_pair[1] = "" THEN Some(PROFIT_THRESHOLD_PERCENT)
                  ELSE IF ExactEntry # None THEN ExactEntry
                  ELSE IF CurrencyEntry # None THEN CurrencyEntry
                  ELSE Some(PROFIT_THRESHOLD_PERCENT)

\* the threshold of USD with Skrill is the global default although the
\* setting has a Skrill entry with the currency left open, and no other
C13_Witness ==
    /\ thr_pair = <<"USD", "Skrill">>
    /\ thr_env # <<>>
    /\ \A i \in DOMAIN thr_env :
          thr_env[i].lhs = <<"ALL", "Skrill">> /\ thr_env[i].val = Some(2 * TicksPerUnit)
    /\ thr_out = Some(PROFIT_THRESHOLD_PERCENT)

----------------------------------------------------------------------------
(* The probe against the full scan *)

\* price, minimum limit and advertiser of an advert found
AdFacts(ad) == <<ad.price, ad.min_limit, ad.advertiser, ad.trade_type,
                 ad.currency, ad.payment_method>>

ProbeHit ==
    /\ scan_out.probe # None
    /\ scan_out.probe[1].buyer_ad # None
    /\ scan_out.probe[1].seller_ad # None

\* C14: whenever fast_probe_ads returns a pair of adverts, the full
\* find_first_ad scans of the same listings find the same two adverts, so the
\* prices and the spread evaluated are those of the full scan, and the spread
\* the probe accepted is one the full scan offers as well.
C14_ProbeAgreesWithFullScan ==
    (scan_pc = "done" /\ ProbeHit) =>
        LET probe == scan_out.probe[1]
            buy == scan_out.buy[1].ad
            sell == scan_out.sell[1].ad
        IN  /\ buy # None
            /\ sell # None
            /\ AdFacts(buy[1]) = AdFacts(probe.buyer_ad[1])
            /\ AdFacts(sell[1]) = AdFacts(probe.seller_ad[1])
            /\ SpreadPercent(buy[1].price, sell[1].price)
                   = SpreadPercent(probe.buyer_ad[1].price, probe.seller_ad[1].price)
            /\ SpreadPercent(buy[1].price, sell[1].price) >= PROFIT_THRESHOLD_PERCENT

\* the probe has returned the two top adverts of listings whose BUY side has
\* further pages, and the full scans have returned
C14_Witness ==
    /\ scan_pc = "done"
    /\ ProbeHit
    /\ scan_out.probe[1].buyer_ad[1].advertiser = "q1"
    /\ scan_buy[2] = PageOk(<<Entry(Some(2090000), Some(150), None, None, Some(500), "n1")>>)
    /\ scan_out.buy[1].requested = 1

\* C34: in every record of active_states, and in the record get_active_state
\* gives for a key without one, `since` is None exactly when active is false.
C34_SinceIffActive ==
    /\ DefaultState.since = None /\ ~DefaultState.active
    /\ \A k \in Keys :
          (active_states[k].since = None) <=> ~active_states[k].active

\* a record that was active, with `since` set, has had its end message sent
\* at a time after 0 and is inactive with `since` None
C34_Witness ==
    \E k \in Keys :
        /\ ~active_states[k].active
        /\ active_states[k].since = None
        /\ active_states[k].last_message_type = "end"
        /\ active_states[k].last_sent_time # None
        /\ active_states[k].last_sent_time[1] > 0

----------------------------------------------------------------------------
(* Variants given up *)

\* the record of pair key k, if it has one
StateOf(states, k) == IF k \in DOMAIN states THEN Some(states[k]) ELSE None

\* C16: when the SELL-side advert found for a variant has a price of zero, or
\* none, the unit of work goes on without evaluating the variant: it makes no
\* dispatch for the pair key, leaves the pair's state as it was, and no
\* evaluation has a zero divisor.
C16_ZeroSellPriceSkipped ==
    [][/\ \A j \in DOMAIN skips' :
            (/\ skips'[j].ads.buyer_ad # None
             /\ skips'[j].ads.seller_ad # None
             /\ skips'[j].ads.seller_ad[1].price = 0) =>
                /\ skips'[j].why = "spread calc error"
                /\ ~SentOk(sends', skips'[j].key)
                /\ ~SentFailed(sends', skips'[j].key)
                /\ \A e \in DOMAIN evals' : evals'[e].key # skips'[j].key
                /\ StateOf(active_states', skips'[j].key)
                       = StateOf(active_states, skips'[j].key)
       /\ \A e \in DOMAIN evals' : evals'[e].buy # 0]_vars

\* a pair that is active has just been skipped because the SELL-side advert
\* had no price
C16_Witness ==
    \E j \in DOMAIN skips :
        /\ skips[j].why = "spread calc error"
        /\ skips[j].ads.seller_ad[1].price = 0
        /\ skips[j].key \in DOMAIN active_states
        /\ active_states[skips[j].key].active
        /\ active_states[skips[j].key].last_sent_time # None

\* C24: when either side of a variant yields no advert (the request failed,
\* the listing is empty, or no advert qualifies within the page budget), the
\* unit of work goes on without evaluating the variant: it makes no dispatch
\* for the pair key and leaves the pair's state as it was, and the unit
\* completes.
C24_MissingAdIsSilent ==
    [][\A j \in DOMAIN skips' :
          (skips'[j].ads.buyer_ad = None \/ skips'[j].ads.seller_ad = None) =>
              /\ skips'[j].why = "missing ad"
              /\ \A i \in DOMAIN sends' : sends'[i].key # skips'[j].key
              /\ \A e \in DOMAIN evals' : evals'[e].key # skips'[j].key
              /\ StateOf(active_states', skips'[j].key)
                     = StateOf(active_states, skips'[j].key)]_vars

\* a pair that is active and has a sent snapshot has just been passed over
\* because the BUY side gave no advert while the SELL side gave one
C24_Witness ==
    \E j \in DOMAIN skips :
        /\ skips[j].why = "missing ad"
        /\ skips[j].ads.buyer_ad = None
        /\ skips[j].ads.seller_ad # None
        /\ sends = <<>>
        /\ skips[j].key \in DOMAIN active_states
        /\ active_states[skips[j].key].active
        /\ active_states[skips[j].key].last_sent_time # None

\* C27: an evaluation that attempts no dispatch (an update, a start or an
\* end held back, or an Inactive pair still below its threshold) sets the
\* observed snapshot of the pair to the values just evaluated, leaves the
\* sent snapshot as it was, and sets the active flag by the threshold.
C27_QuietEvaluation ==
    [][\A j \in DOMAIN evals' :
          LET e == evals'[j]
          IN  (\A i \in DOMAIN sends' : sends'[i].key # e.key) =>
                /\ e.key \in DOMAIN active_states'
                /\ ObservedSnapshot(active_states'[e.key])
                      = <<Some(e.spread), Some(e.buy), Some(e.sell)>>
                /\ SentSnapshot(active_states'[e.key])
                      = SentSnapshot(GetActiveState(active_states, e.key))
                /\ active_states'[e.key].active <=> (e.spread >= e.thr)]_vars

\* a start has been held back by the cooldown after an end: the pair is
\* Active without a start, the observed snapshot holds the values evaluated
\* and the sent snapshot those of the end
C27_Witness ==
    \E j \in DOMAIN evals :
        /\ sends = <<>>
        /\ cfg.ALERT_TTL_SECONDS > 0
        /\ evals[j].spread >= evals[j].thr
        /\ active_states[evals[j].key].active
        /\ HistOf(hist, evals[j].key).starts = 0
        /\ active_states[evals[j].key].last_message_type = "end"
        /\ active_states[evals[j].key].last_buy_price = Some(evals[j].buy)
        /\ active_states[evals[j].key].last_sent_spread # Some(evals[j].spread)

----------------------------------------------------------------------------
(* Observations that drift away from the sent snapshot in small steps *)

\* BUY-page prices 100.50, 100.5001, 100.5002, 100.5075, 100.515 and 100.10
\* against 100.00 on the SELL page: steps within the tolerance, and steps of
\* less than the minimum delta, that add up to more; and a spread below the
\* threshold
DriftMarkets ==
    {[buy |-> OnePage(Advert(p)), sell |-> SellPage] :
        p \in {2010000, 2010002, 2010004, 2010150, 2010300, 2002000}}

\* one unit of work, on one of the drifting listings
DriftStep ==
    /\ RunUnit(1, DriftMarkets)
    /\ UNCHANGED <<scanvars, bucketvars, restvars>>

SpecDrift == Init /\ [][DriftStep]_vars

\* the significance rule, on the sent snapshot of a record: any value away
\* from the sent one by more than the tolerance, or the spread away from the
\* sent one by the minimum delta or a price by the minimum percentage (the
\* percentage divides 100 exactly)
Significant(c, rec, e) ==
    IF c.ALERT_UPDATE_ON_ANY_CHANGE = "1"
    THEN \/ rec.last_sent_spread = None
         \/ Abs(e.spread - rec.last_sent_spread[1]) > ALERT_VALUE_TOLERANCE
         \/ Abs(e.buy - rec.last_sent_buy[1]) > ALERT_VALUE_TOLERANCE
         \/ Abs(e.sell - rec.last_sent_sell[1]) > ALERT_VALUE_TOLERANCE
    ELSE \/ rec.last_sent_spread = None
         \/ Abs(e.spread - rec.last_sent_spread[1]) >= c.ALERT_UPDATE_MIN_DELTA_PERCENT
         \/ Abs(e.buy - rec.last_sent_buy[1])
                    * ((100 * TicksPerUnit) \div ALERT_UPDATE_PRICE_CHANGE_PERCENT)
                >= rec.last_sent_buy[1]
         \/ Abs(e.sell - rec.last_sent_sell[1])
                    * ((100 * TicksPerUnit) \div ALERT_UPDATE_PRICE_CHANGE_PERCENT)
                >= rec.last_sent_sell[1]

\* C25: with a significance threshold above zero (any-change mode, or a
\* minimum delta above 0), an evaluation that finds its pair Active and the
\* spread at or above the threshold dispatches an update exactly when the
\* values are significant against the sent snapshot of the pair, whatever
\* the observed snapshot is: so along observations that drift in small steps
\* the update comes at the first one that is significant against the sent
\* snapshot, and not before.
C25_UpdateAgainstSentSnapshot ==
    [][\A j \in DOMAIN evals' :
          LET e == evals'[j]
              rec == GetActiveState(active_states, e.key)
          IN  (/\ rec.active
               /\ e.spread >= e.thr
               /\ (cfg.ALERT_UPDATE_ON_ANY_CHANGE = "1"
                     \/ cfg.ALERT_UPDATE_MIN_DELTA_PERCENT > 0))
              => ((\E i \in DOMAIN sends' :
                        sends'[i].key = e.key /\ sends'[i].type = "update")
                    <=> Significant(cfg, rec, e))]_vars

\* an update has been sent in an activation that was entered without a
\* start: the observed snapshot had moved away from the sent one, and the
\* values of the update are significant against the sent snapshot only
C25_Witness ==
    \E j \in DOMAIN evals :
        /\ SentType(sends, evals[j].key, "update")
        /\ HistOf(hist, evals[j].key) = [starts |-> 0, updates |-> 1]
        /\ active_states[evals[j].key].last_sent_spread = Some(evals[j].spread)

----------------------------------------------------------------------------
(* The cooldown of start notifications *)

\* C20: with ALERT_TTL_SECONDS > 0 no start is dispatched for a pair, sent or
\* not, while less than ALERT_TTL_SECONDS have passed since the pair's last
\* successfully sent notification; with ALERT_TTL_SECONDS = 0 every
\* evaluation that finds an inactive pair at or above its threshold with
\* values worth sending dispatches a start.
C20_StartCooldown ==
    [][/\ \A j \in DOMAIN sends' :
            LET prev == GetActiveState(active_states, sends'[j].key)
            IN  (/\ sends'[j].type = "start"
                 /\ cfg.ALERT_TTL_SECONDS > 0
                 /\ prev.last_sent_time # None) =>
                    now - prev.last_sent_time[1] >= cfg.ALERT_TTL_SECONDS
       /\ \A e \in DOMAIN evals' :
            LET prev == GetActiveState(active_states, evals'[e].key)
            IN  (/\ cfg.ALERT_TTL_SECONDS = 0
                 /\ evals'[e].spread >= evals'[e].thr
                 /\ ~prev.active
                 /\ ShouldSendUpdate(cfg, prev, evals'[e].spread, evals'[e].buy,
                                     evals'[e].sell, EvalSignature(evals'[e]))) =>
                    \E j \in DOMAIN sends' :
                        sends'[j].key = evals'[e].key /\ sends'[j].type = "start"]_vars

\* within the cooldown after an end was sent, a pair has gone back above its
\* threshold with new values and has become active without any dispatch
C20_Witness ==
    /\ cfg.ALERT_TTL_SECONDS > 0
    /\ cfg.ALERT_UPDATE_ON_ANY_CHANGE = "1"
    /\ sends = <<>>
    /\ \E e \in DOMAIN evals :
        LET rec == GetActiveState(active_states, evals[e].key)
        IN  /\ evals[e].spread >= evals[e].thr
            /\ rec.active
            /\ rec.last_message_type = "end"
            /\ rec.last_sent_time # None
            /\ now - rec.last_sent_time[1] < cfg.ALERT_TTL_SECONDS
            /\ rec.last_sent_signature # EvalSignature(evals[e])
            /\ rec.last_spread = Some(evals[e].spread)

\* C22 (as stated): neither find_first_ad nor fast_probe_ads returns an
\* advert whose price is 0: an advert without a price does not qualify and
\* the scan goes on to the next advert.
C22_NoZeroPriceAdvert ==
    /\ \A s \in ScansDone : s.out.ad # None => s.out.ad[1].price > 0
    /\ ProbeHit => /\ scan_out.probe[1].buyer_ad[1].price > 0
                   /\ scan_out.probe[1].seller_ad[1].price > 0

\* C22 for fast_probe_ads alone, with PROFIT_THRESHOLD_PERCENT above -100
C22_ProbeNoZeroPrice ==
    ProbeHit => /\ scan_out.probe[1].buyer_ad[1].price > 0
                /\ scan_out.probe[1].seller_ad[1].price > 0

----------------------------------------------------------------------------
(* Worker threads: concurrent process_pair calls for one pair *)

\* threads of the cycle's pool, each running process_pair for the first
\* monitored pair: the pair is listed twice
Workers == {"t1", "t2"}

\* places of process_pair inside `with lock:`
InPairLock == {"probe", "decide", "write_sent", "release"}

\* the pair key a worker is at: f"{currency}|{variant}" of its variant
WorkerKey(w) ==
    PairKey(pairs_to_monitor[1].cur,
            paytype_variants_map(pairs_to_monitor[1].m)[workers[w].i])

WorkInit ==
    /\ SMInit /\ ScanIdle /\ BucketIdle /\ ThrIdle /\ FetchIdle /\ LoopIdle
    /\ SideIdle
    /\ workers = [w \in Workers |->
                    [pc |-> "get_lock", i |-> 1, lock |-> None, state |-> None,
                     eval |-> None, pending |-> None]]

\* active_states_lock is free for worker w: no other worker is inside
\* set_active_state_snapshot
StatesLockFree(w) == \A v \in Workers \ {w} : workers[v].pc # "write_sent"

WorkFrame ==
    UNCHANGED <<cfg, profit_thresholds_map, pairs_to_monitor, now, hist, scenario,
                scanvars, bucketvars, thrvars, fetchvars, loopvars, sidevars>>

\* lock = get_pair_lock(pair_key): one step under active_states_lock
GetPairLock(w) ==
    /\ workers[w].pc = "get_lock"
    /\ StatesLockFree(w)
    /\ LET lk == PairLockFor(pair_locks, WorkerKey(w))
       IN  /\ pair_locks' = [k \in DOMAIN pair_locks \cup {WorkerKey(w)} |->
                                IF k = WorkerKey(w) THEN lk ELSE pair_locks[k]]
           /\ workers' = [workers EXCEPT ![w].pc = "with_lock", ![w].lock = Some(lk)]
    /\ sends' = <<>> /\ evals' = <<>> /\ skips' = <<>>
    /\ UNCHANGED <<active_states, did_startup_cleanup>>
    /\ WorkFrame

\* with lock: entered when no other thread holds this lock object
EnterPairLock(w) ==
    /\ workers[w].pc = "with_lock"
    /\ \A v \in Workers \ {w} :
            ~(/\ workers[v].pc \in InPairLock
              /\ WorkerKey(v) = WorkerKey(w)
              /\ workers[v].lock = workers[w].lock)
    /\ workers' = [workers EXCEPT ![w].pc = "probe"]
    /\ sends' = <<>> /\ evals' = <<>> /\ skips' = <<>>
    /\ UNCHANGED <<active_states, pair_locks, did_startup_cleanup>>
    /\ WorkFrame

\* the probe, the scans, the spread and the threshold, up to and including
\* state = get_active_state(pair_key); a `continue` leaves the with block
ProbeAndRead(w) ==
    /\ workers[w].pc = "probe"
    /\ StatesLockFree(w)
    /\ \E mk \in Markets :
        LET p == pairs_to_monitor[1]
            variant == paytype_variants_map(p.m)[workers[w].i]
            ads == FoundAds(mk.buy, mk.sell, p.cur, variant, p.thr)
            missing == ads.buyer_ad = None \/ ads.seller_ad = None
            sell_price == ads.buyer_ad[1].price
            buy_price == ads.seller_ad[1].price
        IN  IF missing \/ buy_price = 0
            THEN /\ workers' = [workers EXCEPT ![w].pc = "release"]
                 /\ skips' = <<[key |-> WorkerKey(w),
                                why |-> IF missing THEN "missing ad"
                                        ELSE "spread calc error",
                                ads |-> ads]>>
                 /\ evals' = <<>>
            ELSE /\ workers' =
                        [workers EXCEPT
                            ![w].pc = "decide",
                            ![w].state = Some(GetActiveState(active_states,
                                                             WorkerKey(w))),
                            ![w].eval =
                                Some([key |-> WorkerKey(w),
                                      spread |-> SpreadPercent(sell_price, buy_price),
                                      buy |-> buy_price,
                                      sell |-> sell_price,
                                      thr |-> GetProfitThresholdForPair(p.cur,
                                                  friendly_pay_names(variant),
                                                  profit_thresholds_map)])]
                 /\ evals' = <<workers'[w].eval[1]>>
                 /\ skips' = <<>>
    /\ sends' = <<>>
    /\ UNCHANGED <<active_states, pair_locks, did_startup_cleanup>>
    /\ WorkFrame

\* the sent snapshot of `old` in the record `new`
WithSentOf(new, old) ==
    [new EXCEPT !.last_sent_spread = old.last_sent_spread,
                !.last_sent_buy = old.last_sent_buy,
                !.last_sent_sell = old.last_sent_sell,
                !.last_sent_time = old.last_sent_time,
                !.last_message_type = old.last_message_type,
                !.last_sent_signature = old.last_sent_signature]

\* The start / update / end decision on the copy read and the send; then
\* set_active_state_snapshot up to `if mark_sent:`, under active_states_lock:
\* the flag and the observed values are assigned to the stored record, if
\* there is one, and to a new dict otherwise.  A failed send writes nothing.
DecideAndUpdate(w) ==
    /\ workers[w].pc = "decide"
    /\ StatesLockFree(w)
    /\ \E sent \in BOOLEAN :
        LET e == workers[w].eval[1]
            d == DecideOn(cfg, workers[w].state[1], active_states, e.key, e.spread,
                          e.buy, e.sell, e.thr, sent, now)
        IN  /\ sends' = d.sends
            /\ did_startup_cleanup' = (did_startup_cleanup \/ d.sends # <<>>)
            /\ IF d.states = active_states
               THEN /\ workers' = [workers EXCEPT ![w].pc = "release"]
                    /\ UNCHANGED active_states
               ELSE /\ workers' = [workers EXCEPT ![w].pc = "write_sent",
                                                  ![w].pending = Some(d)]
                    /\ active_states' =
                          IF e.key \in DOMAIN active_states
                          THEN [active_states EXCEPT
                                   ![e.key] = WithSentOf(d.states[e.key], @)]
                          ELSE active_states
    /\ evals' = <<>> /\ skips' = <<>>
    /\ UNCHANGED pair_locks
    /\ WorkFrame

\* the rest of set_active_state_snapshot: the sent snapshot when mark_sent,
\* active_states[pair_key] = rec, and the release of active_states_lock;
\* then the `break`
WriteSent(w) ==
    /\ workers[w].pc = "write_sent"
    /\ active_states' = workers[w].pending[1].states
    /\ workers' = [workers EXCEPT ![w].pc = "release"]
    /\ sends' = <<>> /\ evals' = <<>> /\ skips' = <<>>
    /\ UNCHANGED <<pair_locks, did_startup_cleanup>>
    /\ WorkFrame

\* the end of the with block: after a `continue` the next variant, if any
LeavePairLock(w) ==
    /\ workers[w].pc = "release"
    /\ LET more == /\ workers[w].eval = None
                   /\ workers[w].i < Len(paytype_variants_map(pairs_to_monitor[1].m))
       IN  workers' = [workers EXCEPT
                          ![w] = [pc |-> IF more THEN "get_lock" ELSE "done",
                                  i |-> IF more THEN workers[w].i + 1 ELSE 1,
                                  lock |-> None, state |-> None, eval |-> None,
                                  pending |-> None]]
    /\ sends' = <<>> /\ evals' = <<>> /\ skips' = <<>>
    /\ UNCHANGED <<active_states, pair_locks, did_startup_cleanup>>
    /\ WorkFrame

\* the pool's threads have all returned: the units of the next cycle start
NextCycle ==
    /\ \A w \in Workers : workers[w].pc = "done"
    /\ workers' = [w \in Workers |-> [workers[w] EXCEPT !.pc = "get_lock"]]
    /\ sends' = <<>> /\ evals' = <<>> /\ skips' = <<>>
    /\ UNCHANGED <<active_states, pair_locks, did_startup_cleanup>>
    /\ WorkFrame

WorkNext ==
    \/ NextCycle
    \/ \E w \in Workers :
        \/ GetPairLock(w)
        \/ EnterPairLock(w)
        \/ ProbeAndRead(w)
        \/ DecideAndUpdate(w)
        \/ WriteSent(w)
        \/ LeavePairLock(w)

SpecWork == WorkInit /\ [][WorkNext]_vars

----------------------------------------------------------------------------
(* Properties of the worker threads *)

\* C15: of the workers at one pair key, at most one is inside the with-lock
\* block at a time; a worker that has read the pair's state and not yet
\* written it holds a copy equal to the stored state, so that no other
\* worker's write falls between its read and its write; and all workers
\* holding a lock for a key hold the lock object stored for that key.
C15_OneUnitPerPairKey ==
    /\ \A v, w \in Workers :
            /\ v # w
            /\ workers[v].pc \in InPairLock
            /\ workers[w].pc \in InPairLock
            => WorkerKey(v) # WorkerKey(w)
    /\ \A w \in Workers :
            workers[w].pc = "decide" =>
                workers[w].state[1] = GetActiveState(active_states, workers[w].eval[1].key)
    /\ \A w \in Workers :
            workers[w].lock # None =>
                /\ WorkerKey(w) \in DOMAIN pair_locks
                /\ workers[w].lock[1] = pair_locks[WorkerKey(w)]

\* C15 witness: one worker is between its read and its write of an active
\* pair's state while the other, holding the same lock object, waits to
\* enter the with block
C15_Witness ==
    /\ workers["t1"].pc = "decide"
    /\ workers["t1"].state[1].active
    /\ workers["t2"].pc = "with_lock"
    /\ workers["t2"].lock = workers["t1"].lock

\* C23: the state map never loses a key; a key enters it only in the step
\* in which a worker writes the state of that key for the first time, never
\* by a read; and a record in the map is never a fresh default: it keeps an
\* observed snapshot, and a sent snapshot once it has one, whichever worker
\* writes it.  (The map has one record per key by construction.)
C23_OneRecordPerKeyKept ==
    [][/\ DOMAIN active_states \subseteq DOMAIN active_states'
       /\ \A k \in DOMAIN active_states' \ DOMAIN active_states :
            \E w \in Workers :
                /\ workers[w].pc = "write_sent"
                /\ workers'[w].pc = "release"
                /\ workers[w].eval[1].key = k
       /\ \A k \in DOMAIN active_states' :
            /\ active_states'[k] # DefaultState
            /\ active_states'[k].last_spread # None
            /\ GetActiveState(active_states, k).last_sent_time # None
                  => active_states'[k].last_sent_time # None]_vars

\* a worker has just written, without a dispatch, the record of a pair that
\* has a sent snapshot, while the other worker waits for the pair lock
C23_Witness ==
    \E w, v \in Workers :
        /\ workers[w].pc = "release"
        /\ workers[w].eval # None
        /\ workers[v].pc = "with_lock"
        /\ sends = <<>>
        /\ workers[w].eval[1].key \in DOMAIN active_states
        /\ active_states[workers[w].eval[1].key].last_sent_spread # None
        /\ active_states[workers[w].eval[1].key].last_spread
                = Some(workers[w].eval[1].spread)
        /\ active_states[workers[w].eval[1].key].last_spread
                # active_states[workers[w].eval[1].key].last_sent_spread

\* C26: when set_active_state_snapshot returns after a successful dispatch
\* of type T on the values evaluated, the record of the pair has its sent
\* and its observed snapshot both equal to those values, T as its message
\* type, the signature of the values and the time of the write; and no
\* worker reads a state while another is inside set_active_state_snapshot,
\* where the stored record has its observed values written and its sent
\* values not yet.
C26_SentSnapshotWrittenAtOnce ==
    [][\A w \in Workers :
          /\ (workers[w].pc = "write_sent" /\ workers'[w].pc = "release") =>
                LET e == workers[w].eval[1]
                    snds == workers[w].pending[1].sends
                    rec == active_states'[e.key]
                IN  \A j \in DOMAIN snds :
                        snds[j].sent =>
                            /\ ObservedSnapshot(rec)
                                  = <<Some(e.spread), Some(e.buy), Some(e.sell)>>
                            /\ SentSnapshot(rec)
                                  = <<Some(e.spread), Some(e.buy), Some(e.sell),
                                      Some(now), snds[j].type, EvalSignature(e)>>
          /\ (workers[w].pc = "probe" /\ workers'[w].pc = "decide") =>
                /\ \A v \in Workers : workers[v].pc # "write_sent"
                /\ workers'[w].state[1]
                      = GetActiveState(active_states, workers'[w].eval[1].key)]_vars

\* a worker has left set_active_state_snapshot after a successful update
\* whose values the record now holds as sent and as observed, while the
\* other worker waits for the pair lock
C26_Witness ==
    \E w, v \in Workers :
        /\ workers[w].pc = "release"
        /\ workers[w].pending # None
        /\ workers[w].pending[1].sends # <<>>
        /\ workers[w].pending[1].sends[1].sent
        /\ workers[w].pending[1].sends[1].type = "update"
        /\ active_states[workers[w].eval[1].key].last_sent_spread
                = Some(workers[w].eval[1].spread)
        /\ active_states[workers[w].eval[1].key].last_message_type = "update"
        /\ workers[v].pc = "with_lock"

----------------------------------------------------------------------------
(* run_monitor_loop: the cycles of the orchestrator *)

\* "Proc error" lines are counted up to this number
MaxErrors == 1

\* the listings the units of the loop meet: a spread above the default
\* threshold, one below it, and an empty BUY listing
LoopMarkets ==
    {mk \in Markets :
        mk.buy \in {OnePage(Advert(2060000)), OnePage(Advert(2002000)), <<PageOk(<<>>)>>}}

\* the loop at the top of a cycle, with no future submitted
CycleStart(errors) ==
    [pc |-> "submit",
     units |-> [i \in DOMAIN pairs_to_monitor |-> "unsubmitted"],
     collected |-> {}, errors |-> errors, why |-> "running"]

LoopInit ==
    /\ cfg = [ALERT_TTL_SECONDS |-> 0, ALERT_DEDUP_MODE |-> "exact",
              ALERT_UPDATE_ON_ANY_CHANGE |-> "1",
              ALERT_UPDATE_MIN_DELTA_PERCENT |-> ALERT_UPDATE_MIN_DELTA_PERCENT]
    /\ profit_thresholds_map = [k \in {<<"USD", "NETELLER">>} |-> (4 * TicksPerUnit) \div 10]
    /\ pairs_to_monitor = <<[cur |-> "USD", m |-> "NETELLER", thr |-> DEFAULT_MIN_LIMIT],
                            [cur |-> "GBP", m |-> "NETELLER", thr |-> DEFAULT_MIN_LIMIT]>>
    /\ now = 0
    /\ active_states = [k \in {} |-> DefaultState]
    /\ pair_locks = [k \in {} |-> 0]
    /\ did_startup_cleanup = FALSE
    /\ sends = <<>> /\ evals = <<>> /\ skips = <<>>
    /\ hist = [k \in {} |-> NoDispatches]
    /\ scenario = <<>>
    /\ ScanIdle /\ BucketIdle /\ ThrIdle /\ FetchIdle /\ WorkIdle /\ SideIdle
    /\ loop = CycleStart(0)

LoopRest ==
    UNCHANGED <<scanvars, bucketvars, thrvars, fetchvars, workvars, sidevars>>

LoopFrame ==
    /\ sends' = <<>> /\ evals' = <<>> /\ skips' = <<>>
    /\ UNCHANGED <<cfg, profit_thresholds_map, pairs_to_monitor, now, active_states,
                   pair_locks, did_startup_cleanup, hist, scenario>>
    /\ LoopRest

\* futures.append(ex.submit(process_pair, cur, m, thr)) for the next pair
Submit ==
    /\ loop.pc = "submit"
    /\ LET n == Cardinality({i \in DOMAIN loop.units : loop.units[i] # "unsubmitted"}) + 1
       IN  loop' = [loop EXCEPT !.units[n] = "submitted",
                                !.pc = IF n = Len(pairs_to_monitor) THEN "collect"
                                       ELSE "submit"]
    /\ LoopFrame

\* a pool thread runs the unit of pair i to its return
UnitReturns(i) ==
    /\ loop.pc # "ended"
    /\ loop.units[i] = "submitted"
    /\ RunUnit(i, LoopMarkets)
    /\ loop' = [loop EXCEPT !.units[i] = "returned"]
    /\ LoopRest

\* the unit of pair i raises an Exception, before it sends or writes
UnitRaises(i) ==
    /\ loop.pc # "ended"
    /\ loop.units[i] = "submitted"
    /\ loop' = [loop EXCEPT !.units[i] = "raised"]
    /\ LoopFrame

\* faulty variant: the exception of a unit is not caught at f.result()
AfterResultUncaught(l, i) ==
    IF l.units[i] = "raised" THEN [l EXCEPT !.pc = "ended", !.why = "unit error"]
    ELSE [l EXCEPT !.collected = @ \cup {i}]

\* try: f.result()  except Exception as e: logging.error(...)
AfterResult(l, i) ==
    [l EXCEPT !.collected = @ \cup {i},
              !.errors = IF l.units[i] = "raised" THEN Min2(MaxErrors, @ + 1) ELSE @]

\* for f in as_completed(futures): the next completed future is taken
Collect(i) ==
    /\ loop.pc = "collect"
    /\ i \notin loop.collected
    /\ loop.units[i] \in {"returned", "raised"}
    /\ loop' = AfterResult(loop, i)
    /\ LoopFrame

\* every future was taken and the pool is shut down: time.sleep(sleep_for)
EndCycle ==
    /\ loop.pc = "collect"
    /\ loop.collected = DOMAIN pairs_to_monitor
    /\ loop' = [loop EXCEPT !.pc = "sleep"]
    /\ LoopFrame

\* the sleep is over: while True
Sleep ==
    /\ loop.pc = "sleep"
    /\ loop' = CycleStart(loop.errors)
    /\ LoopFrame

\* KeyboardInterrupt, or an exception raised by the loop's own statements
Stop ==
    /\ loop.pc # "ended"
    /\ \E why \in {"KeyboardInterrupt", "Exception"} :
            loop' = [loop EXCEPT !.pc = "ended", !.why = why]
    /\ LoopFrame

LoopStep == Submit \/ EndCycle \/ Sleep \/ \E i \in DOMAIN pairs_to_monitor : Collect(i)

UnitStep == \E i \in DOMAIN pairs_to_monitor : UnitReturns(i) \/ UnitRaises(i)

LoopNext == LoopStep \/ UnitStep \/ Stop

SpecLoop == LoopInit /\ [][LoopNext]_vars

\* the loop's thread and the pool's threads get to run, and sleeps end
SpecLoopFair ==
    /\ SpecLoop
    /\ WF_vars(LoopStep)
    /\ \A i \in {1, 2} : WF_vars(UnitReturns(i) \/ UnitRaises(i))

----------------------------------------------------------------------------
(* Properties of run_monitor_loop *)

\* C19: the loop ends only by a shutdown signal or a fault of its own
\* statements, never by the error of a unit; when a cycle is over every unit
\* of it has returned or raised; and once a unit has raised, the loop gets
\* to the end of that cycle with the other units finished, and from there to
\* the top of the next cycle, unless a signal or top-level fault ends it.
C19_UnitErrorIsContained ==
    /\ [](loop.pc = "ended" => loop.why \in {"KeyboardInterrupt", "Exception"})
    /\ [](loop.pc = "sleep" =>
            \A i \in DOMAIN loop.units : loop.units[i] \in {"returned", "raised"})
    /\ \A i \in {1, 2} :
            (loop.pc # "ended" /\ loop.units[i] = "raised")
                ~> (loop.pc \in {"sleep", "ended"})
    /\ (loop.pc = "sleep") ~> (loop.pc \in {"submit", "ended"})

\* C19 witness: a cycle is over in which the first pair's unit raised and
\* the second pair's unit returned after it had set its pair active, the
\* error was logged and the loop is about to start the next cycle
C19_Witness ==
    /\ loop.pc = "sleep"
    /\ loop.units = <<"raised", "returned">>
    /\ loop.errors = 1
    /\ <<"GBP", "NETELLER">> \in DOMAIN active_states
    /\ active_states[<<"GBP", "NETELLER">>].active

----------------------------------------------------------------------------
(* send_telegram_alert called by the worker threads: the startup cleanup    *)
(* under startup_cleanup_lock, then the notification                        *)

\* calls of send_telegram_alert made by one thread
MaxAlerts == 2

\* TELEGRAM_BOT_TOKEN and TELEGRAM_CHAT_ID: both set, one of them missing, or
\* a chat id that int() rejects
TelegramSettings == {"set", "unset", "badchat"}

\* what getUpdates gives: an error, no update, updates of the chat without a
\* photo message, updates of the chat with one
GetUpdatesResults == {"failed", "empty", "no_photo", "photo"}

AlerterIdle == [pc |-> "idle", calls |-> 0, cleanup |-> "none", found |-> "none"]

CleanInit ==
    /\ cfg = [ALERT_TTL_SECONDS |-> 0,
              ALERT_DEDUP_MODE |-> "exact",
              ALERT_UPDATE_ON_ANY_CHANGE |-> "1",
              ALERT_UPDATE_MIN_DELTA_PERCENT |-> ALERT_UPDATE_MIN_DELTA_PERCENT]
    /\ SMInit
    /\ ScanIdle /\ BucketIdle /\ ThrIdle /\ FetchIdle /\ WorkIdle /\ LoopIdle
    /\ LockIdle
    /\ startup_cleanup_lock = None
    /\ alerters = [t \in Workers |-> AlerterIdle]
    /\ \E s \in TelegramSettings :
           telegram = [settings |-> s, getUpdates |-> 0, deletes |-> 0, posts |-> 0]

CleanFrame ==
    UNCHANGED <<cfg, profit_thresholds_map, pairs_to_monitor, now, active_states,
                pair_locks, sends, evals, hist, scenario, skips, scanvars,
                bucketvars, thrvars, fetchvars, workvars, loopvars, lockvars>>

\* send_telegram_alert(message): `if not did_startup_cleanup`, read without
\* the lock
AlertCall(t) ==
    /\ alerters[t].pc = "idle"
    /\ alerters[t].calls < MaxAlerts
    /\ alerters' = [alerters EXCEPT ![t].pc =
                        IF did_startup_cleanup THEN "send" ELSE "cleanup"]
    /\ UNCHANGED <<did_startup_cleanup, startup_cleanup_lock, telegram>>
    /\ CleanFrame

\* faulty variant: the flag is not read again under the lock
AlreadyCleanedUnchecked(flag) == FALSE

\* with startup_cleanup_lock: if did_startup_cleanup: return
AlreadyCleaned(flag) == flag

\* startup_cleanup_preserve_first_photo, from the acquisition of the lock to
\* the answer of getUpdates: the early returns, or on with the updates
CleanupEnter(t) ==
    /\ alerters[t].pc = "cleanup"
    /\ startup_cleanup_lock = None
    /\ IF AlreadyCleaned(did_startup_cleanup)
       THEN /\ alerters' = [alerters EXCEPT ![t].pc = "send",
                                            ![t].cleanup = "found_done"]
            /\ UNCHANGED <<did_startup_cleanup, startup_cleanup_lock, telegram>>
       ELSE IF telegram.settings # "set"
       THEN /\ did_startup_cleanup' = TRUE
            /\ alerters' = [alerters EXCEPT ![t].pc = "send",
                                            ![t].cleanup = "skipped"]
            /\ UNCHANGED <<startup_cleanup_lock, telegram>>
       ELSE /\ telegram' = [telegram EXCEPT !.getUpdates = @ + 1]
            /\ \E r \in GetUpdatesResults :
                 IF r \in {"failed", "empty"}
                 THEN /\ did_startup_cleanup' = TRUE
                      /\ alerters' = [alerters EXCEPT ![t].pc = "send",
                                                      ![t].cleanup = "ran"]
                      /\ UNCHANGED startup_cleanup_lock
                 ELSE /\ startup_cleanup_lock' = Some(t)
                      /\ alerters' = [alerters EXCEPT ![t].pc = "body",
                                                      ![t].found = r]
                      /\ UNCHANGED did_startup_cleanup
    /\ CleanFrame

\* the rest of the body: with a photo message found, the other messages are
\* deleted and the offset cleared; did_startup_cleanup = True; the lock is
\* released
CleanupBody(t) ==
    /\ alerters[t].pc = "body"
    /\ startup_cleanup_lock = Some(t)
    /\ telegram' = [telegram EXCEPT !.deletes =
                        IF alerters[t].found = "photo" THEN @ + 1 ELSE @]
    /\ did_startup_cleanup' = TRUE
    /\ startup_cleanup_lock' = None
    /\ alerters' = [alerters EXCEPT ![t].pc = "send", ![t].cleanup = "ran",
                                    ![t].found = "none"]
    /\ CleanFrame

\* the notification: nothing is posted without token and chat id, otherwise
\* sendPhoto or sendMessage requests are made
AlertSend(t) ==
    /\ alerters[t].pc = "send"
    /\ telegram' = [telegram EXCEPT !.posts =
                        IF telegram.settings = "unset" THEN @ ELSE @ + 1]
    /\ alerters' = [alerters EXCEPT ![t].pc = "idle", ![t].calls = @ + 1]
    /\ UNCHANGED <<did_startup_cleanup, startup_cleanup_lock>>
    /\ CleanFrame

CleanNext ==
    \E t \in Workers :
        \/ AlertCall(t)
        \/ CleanupEnter(t)
        \/ CleanupBody(t)
        \/ AlertSend(t)

SpecClean == CleanInit /\ [][CleanNext]_vars

\* C31: the body of the startup cleanup (getUpdates, then the deletion of
\* the messages other than the first photo) runs at most once, also when two
\* threads make their first call of send_telegram_alert at the same time, and
\* no notification is posted before the cleanup has finished.
C31_CleanupOnceBeforeFirstSend ==
    /\ [](telegram.getUpdates <= 1 /\ telegram.deletes <= 1)
    /\ [][telegram'.posts > telegram.posts =>
            /\ did_startup_cleanup
            /\ \A t \in Workers : alerters[t].pc # "body"]_vars

\* both threads found the flag unset on their first call; one ran the body
\* and deleted messages, the other waited for the lock and found the cleanup
\* done; both have posted their notification since
C31_Witness ==
    \E t, u \in Workers :
        /\ alerters[t].cleanup = "ran"
        /\ alerters[u].cleanup = "found_done"
        /\ alerters[t].calls >= 1
        /\ alerters[u].calls >= 1
        /\ telegram.getUpdates = 1
        /\ telegram.deletes = 1
        /\ telegram.posts >= 2

----------------------------------------------------------------------------
(* A monitored pair whose method has aliases *)

\* listings met for a variant: no BUY advert, spreads of 3.00%, 3.05%, 0.50%
AliasMarkets ==
    {[buy |-> <<PageOk(<<>>)>>, sell |-> SellPage],
     [buy |-> OnePage(Advert(2060000)), sell |-> SellPage],
     [buy |-> OnePage(Advert(2061000)), sell |-> SellPage],
     [buy |-> OnePage(Advert(2010000)), sell |-> SellPage]}

\* PAIRS = "USD:SkrillMoneybookers", no PROFIT_THRESHOLDS entry for it
AliasInit ==
    /\ cfg = [ALERT_TTL_SECONDS |-> 0, ALERT_DEDUP_MODE |-> "exact",
              ALERT_UPDATE_ON_ANY_CHANGE |-> "1",
              ALERT_UPDATE_MIN_DELTA_PERCENT |-> ALERT_UPDATE_MIN_DELTA_PERCENT]
    /\ profit_thresholds_map = [k \in {<<"USD", "NETELLER">>} |-> (4 * TicksPerUnit) \div 10]
    /\ pairs_to_monitor =
            <<[cur |-> "USD", m |-> "SkrillMoneybookers", thr |-> DEFAULT_MIN_LIMIT]>>
    /\ now = 0
    /\ active_states = [k \in {} |-> DefaultState]
    /\ pair_locks = [k \in {} |-> 0]
    /\ did_startup_cleanup = FALSE
    /\ sends = <<>> /\ evals = <<>> /\ skips = <<>>
    /\ hist = [k \in {} |-> NoDispatches]
    /\ scenario = <<>>
    /\ ScanIdle /\ BucketIdle /\ RestIdle

\* one cycle's unit of work for the pair
AliasStep ==
    /\ RunUnit(1, AliasMarkets)
    /\ UNCHANGED <<scanvars, bucketvars, restvars>>

SpecAlias == AliasInit /\ [][AliasStep]_vars

\* the pair keys for which the last unit of work made requests
KeysUsed(evs, sks) ==
    {evs[e].key : e \in DOMAIN evs} \cup {sks[j].key : j \in DOMAIN sks}

\* C32 (as stated): over any sequence of cycles and scan outcomes, the
\* evaluations of the monitored pair all use one pair key: one lock and one
\* PairState record exist for the pair, and the requests of a unit of work
\* are made for a single method identifier.
C32_OnePairKeyPerMonitoredPair ==
    /\ Cardinality(DOMAIN active_states) <= 1
    /\ Cardinality(DOMAIN pair_locks) <= 1
    /\ Cardinality(KeysUsed(evals, skips)) <= 1

\* C32, as the code has it: a unit of work goes through the aliases of the
\* method in the order of paytype_variants_map, each under the pair key, the
\* lock and the record of that alias, and evaluates the first one for which
\* both adverts are found and the spread can be computed; a method without
\* aliases has one key.
C32_KeyOfFirstVariantWithAds ==
    [][LET p == pairs_to_monitor[1]
           variants == paytype_variants_map(p.m)
       IN  /\ Len(skips') + Len(evals') <= Len(variants)
           /\ Len(evals') <= 1
           /\ \A j \in DOMAIN skips' : skips'[j].key = PairKey(p.cur, variants[j])
           /\ \A e \in DOMAIN evals' :
                  evals'[e].key = PairKey(p.cur, variants[Len(skips') + 1])
           /\ DOMAIN active_states' \subseteq
                  {PairKey(p.cur, variants[i]) : i \in DOMAIN variants}]_vars

\* C33: a unit of work calls send_telegram_alert at most once, whatever the
\* number of aliases it goes through: the one call is a start, an update or
\* an end for the pair key it evaluated, and the aliases it gave up on the
\* way got nothing.
C33_OneDispatchPerUnit ==
    /\ Len(sends) <= 1
    /\ \A j \in DOMAIN sends :
          /\ sends[j].type \in {"start", "update", "end"}
          /\ Len(evals) = 1
          /\ sends[j].key = evals[1].key
          /\ \A k \in DOMAIN skips : skips[k].key # sends[j].key

\* the unit has given up the first alias, whose record is active, for a
\* missing advert, and has sent the one update under the second alias
C33_Witness ==
    /\ Len(skips) = 1
    /\ skips[1].key \in DOMAIN active_states
    /\ active_states[skips[1].key].active
    /\ Len(sends) = 1
    /\ sends[1].type = "update"
    /\ sends[1].sent
    /\ sends[1].key # skips[1].key

----------------------------------------------------------------------------
(* The locks of the program, as the worker threads and the BUY / SELL       *)
(* sub-tasks of their units of work take and release them                   *)

\* the worker threads of run_monitor_loop
LockWorkers == {"t1", "t2"}

\* the threads of the ThreadPoolExecutor of a unit: find_first_ad BUY, SELL
Kids ==
    [w \in LockWorkers |->
        IF w = "t1" THEN {"t1.BUY", "t1.SELL"} ELSE {"t2.BUY", "t2.SELL"}]

LockThreads == LockWorkers \cup UNION {Kids[w] : w \in LockWorkers}

\* pair keys of the units run at the same time: the same key when two
\* monitored methods share an alias, or different keys
LockKeys == {"USD|Skrill", "GBP|Skrill"}

\* the module-level locks; a pair lock goes by its pair key
LeafLocks ==
    {"active_states_lock", "token_lock", "last_request_lock",
     "consecutive_429_lock", "startup_cleanup_lock"}

\* the places of the code at which a thread takes a lock
LockPcs ==
    {"get_pair_lock", "with_lock", "acquire_token_blocking", "rate_limit_wait",
     "min_interval", "count_429", "get_active_state", "startup_cleanup",
     "set_active_state_snapshot"}

\* the lock taken at the place where the thread is
LockOf(rec) ==
    CASE rec.pc \in {"get_pair_lock", "get_active_state", "set_active_state_snapshot"}
            -> "active_states_lock"
      [] rec.pc = "with_lock" -> rec.key
      [] rec.pc = "acquire_token_blocking" -> "token_lock"
      [] rec.pc \in {"rate_limit_wait", "count_429"} -> "consecutive_429_lock"
      [] rec.pc = "min_interval" -> "last_request_lock"
      [] rec.pc = "startup_cleanup" -> "startup_cleanup_lock"

\* fetch_page_raw is called, to come back at `ret`
Fetch(rec, ret) == [rec EXCEPT !.pc = "acquire_token_blocking", !.ret = ret]

\* where a thread goes on from the place where it is, once the lock taken
\* there is released (or, for the pair lock, taken)
After(rec) ==
    CASE rec.pc = "get_pair_lock" -> {[rec EXCEPT !.pc = "with_lock"]}
      [] rec.pc = "with_lock" -> {Fetch(rec, "fast_probe_sell")}
         \* the bucket was empty: sleep outside the lock and try again
      [] rec.pc = "acquire_token_blocking" ->
            {rec, [rec EXCEPT !.pc = "rate_limit_wait"]}
      [] rec.pc = "rate_limit_wait" -> {[rec EXCEPT !.pc = "min_interval"]}
      [] rec.pc = "min_interval" -> {[rec EXCEPT !.pc = "post"]}
         \* a 429 with attempts left, or the response is returned
      [] rec.pc = "count_429" ->
            {[rec EXCEPT !.pc = "acquire_token_blocking"],
             [rec EXCEPT !.pc = rec.ret, !.ret = "none"]}
      [] rec.pc = "get_active_state" ->
            {[rec EXCEPT !.pc = p] :
                p \in {"send_telegram_alert", "set_active_state_snapshot"}}
      [] rec.pc = "startup_cleanup" ->
            {[rec EXCEPT !.pc = p] : p \in {"set_active_state_snapshot", "exit_with"}}
      [] rec.pc = "set_active_state_snapshot" -> {[rec EXCEPT !.pc = "exit_with"]}

LockThreadIdle == [pc |-> "idle", in |-> FALSE, key |-> "none", ret |-> "none"]

LockInit ==
    /\ cfg = [ALERT_TTL_SECONDS |-> 0, ALERT_DEDUP_MODE |-> "exact",
              ALERT_UPDATE_ON_ANY_CHANGE |-> "1",
              ALERT_UPDATE_MIN_DELTA_PERCENT |-> ALERT_UPDATE_MIN_DELTA_PERCENT]
    /\ SMInit
    /\ ScanIdle /\ BucketIdle /\ ThrIdle /\ FetchIdle /\ WorkIdle /\ LoopIdle
    /\ CleanIdle
    /\ lock_holder = [l \in LeafLocks \cup LockKeys |-> None]
    /\ \E k \in LockKeys :
          threads = [t \in LockThreads |->
                        IF t = "t1"
                        THEN [LockThreadIdle EXCEPT !.pc = "get_pair_lock",
                                                    !.key = "USD|Skrill"]
                        ELSE IF t = "t2"
                        THEN [LockThreadIdle EXCEPT !.pc = "get_pair_lock", !.key = k]
                        ELSE LockThreadIdle]

LockFrame ==
    UNCHANGED <<smvars, scanvars, bucketvars, thrvars, fetchvars, workvars,
                loopvars, cleanvars>>

\* a thread gets the lock it is waiting for.  The pair lock is kept while
\* the thread goes on; the other locks are held for the `with` block
Acquire(t) ==
    /\ threads[t].pc \in LockPcs
    /\ ~threads[t].in
    /\ lock_holder[LockOf(threads[t])] = None
    /\ lock_holder' = [lock_holder EXCEPT ![LockOf(threads[t])] = Some(t)]
    /\ IF threads[t].pc = "with_lock"
       THEN \E rec \in After(threads[t]) : threads' = [threads EXCEPT ![t] = rec]
       ELSE threads' = [threads EXCEPT ![t].in = TRUE]
    /\ LockFrame

\* the end of a `with` block of one of the module-level locks
Release(t) ==
    /\ threads[t].in
    /\ lock_holder' = [lock_holder EXCEPT ![LockOf(threads[t])] = None]
    /\ \E rec \in After(threads[t]) :
          threads' = [threads EXCEPT ![t] = [rec EXCEPT !.in = FALSE]]
    /\ LockFrame

\* session.post of fetch_page_raw: a 429 or a success, which go to the
\* counter; an exception with attempts left; an exception at the last attempt
PostRequest(t) ==
    /\ threads[t].pc = "post"
    /\ \E rec \in {[threads[t] EXCEPT !.pc = "count_429"],
                   [threads[t] EXCEPT !.pc = "acquire_token_blocking"],
                   [threads[t] EXCEPT !.pc = threads[t].ret, !.ret = "none"]} :
          threads' = [threads EXCEPT ![t] = rec]
    /\ UNCHANGED lock_holder
    /\ LockFrame

\* the steps of process_pair and find_first_ad between calls: the second
\* request of the probe; the probe hit or not; a further page or the end of
\* the scan; the alert, with or without the call of the startup cleanup
Proceed(t) ==
    /\ \E rec \in
          CASE threads[t].pc = "fast_probe_sell" -> {Fetch(threads[t], "probed")}
            [] threads[t].pc = "probed" ->
                  {[threads[t] EXCEPT !.pc = p] : p \in {"get_active_state", "submit"}}
            [] threads[t].pc = "next_page" ->
                  {Fetch(threads[t], "next_page"), [threads[t] EXCEPT !.pc = "returned"]}
            [] threads[t].pc = "send_telegram_alert" ->
                  {[threads[t] EXCEPT !.pc = p] :
                      p \in {"startup_cleanup", "set_active_state_snapshot", "exit_with"}}
            [] OTHER -> {} :
          threads' = [threads EXCEPT ![t] = rec]
    /\ UNCHANGED lock_holder
    /\ LockFrame

\* with ThreadPoolExecutor(max_workers=2) as ex: both scans are submitted
SubmitScans(w) ==
    /\ threads[w].pc = "submit"
    /\ threads' = [t \in LockThreads |->
                     IF t = w THEN [threads[w] EXCEPT !.pc = "result"]
                     ELSE IF t \in Kids[w] THEN Fetch(LockThreadIdle, "next_page")
                     ELSE threads[t]]
    /\ UNCHANGED lock_holder
    /\ LockFrame

\* fut_b.result(), fut_s.result() and the end of the executor's block: both
\* scans are over; with both adverts the unit goes on, otherwise `continue`,
\* and an exception raised further on leaves the block as well
ScansResult(w) ==
    /\ threads[w].pc = "result"
    /\ \A k \in Kids[w] : threads[k].pc = "returned"
    /\ \E p \in {"get_active_state", "exit_with"} :
          threads' = [t \in LockThreads |->
                         IF t = w THEN [threads[w] EXCEPT !.pc = p]
                         ELSE IF t \in Kids[w] THEN LockThreadIdle
                         ELSE threads[t]]
    /\ UNCHANGED lock_holder
    /\ LockFrame

\* faulty variant: the lock is released on the normal path only
AfterWithReturnOnly(holder, key, how) ==
    IF how = "raised" THEN holder ELSE [holder EXCEPT ![key] = None]

\* the end of `with lock:`, reached by falling through, by `continue`, or by
\* an exception
AfterWith(holder, key, how) == [holder EXCEPT ![key] = None]

\* the unit leaves `with lock:` and ends: process_pair returns or raises
ExitWith(w) ==
    /\ threads[w].pc = "exit_with"
    /\ \E how \in {"returned", "raised"} :
          /\ lock_holder' = AfterWith(lock_holder, threads[w].key, how)
          /\ threads' = [threads EXCEPT ![w].pc = how]
    /\ LockFrame

\* the next cycle submits the units again
NextUnits ==
    /\ \A w \in LockWorkers : threads[w].pc \in {"returned", "raised"}
    /\ \A l \in DOMAIN lock_holder : lock_holder[l] = None
    /\ threads' = [t \in LockThreads |->
                     IF t \in LockWorkers
                     THEN [threads[t] EXCEPT !.pc = "get_pair_lock"]
                     ELSE threads[t]]
    /\ UNCHANGED lock_holder
    /\ LockFrame

LocksNext ==
    \/ \E t \in LockThreads :
          \/ Acquire(t)
          \/ Release(t)
          \/ PostRequest(t)
          \/ Proceed(t)
    \/ \E w \in LockWorkers :
          \/ SubmitScans(w)
          \/ ScansResult(w)
          \/ ExitWith(w)
    \/ NextUnits

SpecLocks == LockInit /\ [][LocksNext]_vars

\* the threads that thread t cannot go on without: the holder of the lock it
\* waits for, and the sub-tasks whose results it waits for
WaitsFor(t) ==
    IF threads[t].pc \in LockPcs /\ ~threads[t].in
    THEN {u \in LockThreads : lock_holder[LockOf(threads[t])] = Some(u)}
    ELSE IF threads[t].pc = "result"
    THEN {k \in Kids[t] : threads[k].pc # "returned"}
    ELSE {}

\* the threads reached from S along at most n waits
RECURSIVE WaitsForWithin(_, _)
WaitsForWithin(S, n) ==
    IF n = 0 THEN S
    ELSE WaitsForWithin(S \cup UNION {WaitsFor(u) : u \in S}, n - 1)

LocksHeldBy(t) == {l \in DOMAIN lock_holder : lock_holder[l] = Some(t)}

\* C35: no thread waits for a lock, directly or through other waiting
\* threads and the sub-tasks they wait for, that is held by itself or by a
\* thread waiting for it; and a unit of work that has ended, by returning or
\* by raising, holds no lock.
C35_NoLockCycle ==
    /\ \A t \in LockThreads :
          t \notin WaitsForWithin(WaitsFor(t), Cardinality(LockThreads))
    /\ \A t \in LockThreads :
          threads[t].pc \in {"idle", "returned", "raised"} => LocksHeldBy(t) = {}

\* a chain of waits: t2 waits for the pair lock of the key it shares with
\* t1, which holds it and waits for its scans; the SELL scan waits for
\* last_request_lock, held by the BUY scan
C35_Witness ==
    /\ threads["t2"].pc = "with_lock"
    /\ lock_holder[threads["t2"].key] = Some("t1")
    /\ threads["t1"].pc = "result"
    /\ threads["t1.SELL"].pc = "min_interval"
    /\ ~threads["t1.SELL"].in
    /\ lock_holder["last_request_lock"] = Some("t1.BUY")

============================================================================
